---- MODULE Spec2Model ----
(***************************************************************************)
(* Model of the procedure-to-route mapper (procedure-route-mapper/          *)
(* fastify-module.ts) and of the error handler (middleware/errorHandler.ts).*)
(*                                                                          *)
(* Strings are sequences of one-character strings, so that split, replace,  *)
(* toUpperCase and the regular expressions of the source are computed       *)
(* character by character.                                                  *)
(***************************************************************************)
EXTENDS Integers, Sequences, FiniteSets, TLC

VARIABLES
    procName,      \* SpecName: the procedure name handed to parseProcedureName
    parsed,        \* SpecName: <<method, url>> once parseProcedureName returned, <<>> before
    catalog,       \* the procedures the catalog query returned, in order
    routes,        \* the routes registered with app.route so far, in order
    server,        \* "registering", "listening" or "exited"
    startupError,  \* the error that failed the plugin, Nothing when none
    request,       \* the request being handled: the route's procedure and the request fields
    dbCall,        \* the CALL issued for it: procedure and arguments
    dbOutcome,     \* how the query settled: Return(results) or Throw(error)
    handled,       \* how the route handler settled: Return(reply) or Throw(error)
    reply,         \* the reply sent: status and payload
    validationFiles,   \* SpecLoad: the modules of the custom-validations folder, in glob order
    filesTaken,        \* SpecLoad: how many of them the loop of loadCustomValidations has taken
    customValidations, \* SpecLoad: the names registered in the validations object so far
    selfTested,        \* SpecLoad: the factories called so far, in call order
    loadResult,        \* SpecLoad: how loadCustomValidations settled, Nothing while it runs
    inflight           \* SpecConcurrent: per slot, the request being served there and its progress

\* the state of loadCustomValidations
loaderVars == <<validationFiles, filesTaken, customValidations, selfTested, loadResult>>


(***************************************************************************)
(* Bounds                                                                   *)
(***************************************************************************)
\* longest procedure-name remainder (after the prefix) drawn in SpecName
MaxNameLen == 6

\* most data result sets in an answer of the database, and most schema descriptors
MaxSets == 2

\* most rows in a data result set
MaxRows == 2

\* most procedures in a catalog
MaxCatalog == 2

\* most tags in the comment of a procedure drawn in SpecCompile
MaxTags == 2

\* most files in the custom-validations folder drawn in SpecLoad
MaxFiles == 2

\* most requests in flight at a time in SpecConcurrent
MaxInflight == 2

(***************************************************************************)
(* String primitives (methods of String.prototype)                          *)
(***************************************************************************)
LowerCase == <<"a", "b", "c", "d", "e", "f", "g", "h", "i", "j", "k", "l", "m",
               "n", "o", "p", "q", "r", "s", "t", "u", "v", "w", "x", "y", "z">>
UpperCase == <<"A", "B", "C", "D", "E", "F", "G", "H", "I", "J", "K", "L", "M",
               "N", "O", "P", "Q", "R", "S", "T", "U", "V", "W", "X", "Y", "Z">>
Digits == <<"0", "1", "2", "3", "4", "5", "6", "7", "8", "9">>

Range(f) == {f[i] : i \in DOMAIN f}

\* the regular-expression class \w
WordChars == Range(LowerCase) \cup Range(UpperCase) \cup Range(Digits) \cup {"_"}

IsWordChar(c) == c \in WordChars

ToUpperChar(c) ==
    IF c \in Range(LowerCase)
    THEN UpperCase[CHOOSE i \in DOMAIN LowerCase : LowerCase[i] = c]
    ELSE c

\* String.prototype.toUpperCase
ToUpperCase(s) == [i \in DOMAIN s |-> ToUpperChar(s[i])]

\* s.startsWith(p)
StartsWith(s, p) == Len(s) >= Len(p) /\ SubSeq(s, 1, Len(p)) = p

\* the least element of a non-empty set of positions
Least(S) == CHOOSE i \in S : \A j \in S : i <= j

\* the positions of s at which p occurs
Occurrences(s, p) == {i \in 1..(Len(s) - Len(p) + 1) : SubSeq(s, i, i + Len(p) - 1) = p}

\* 1-based position of the first occurrence of p in s, 0 when there is none
IndexOf(s, p) == IF Occurrences(s, p) = {} THEN 0 ELSE Least(Occurrences(s, p))

\* s.includes(p)
Includes(s, p) == IndexOf(s, p) # 0

\* s with the occurrence of p at position i replaced by r, s itself when i = 0
ReplaceAt(s, p, r, i) ==
    IF i = 0 THEN s
    ELSE SubSeq(s, 1, i - 1) \o r \o SubSeq(s, i + Len(p), Len(s))

\* s.replace(p, r) with a string pattern: the first occurrence only
ReplaceFirst(s, p, r) == ReplaceAt(s, p, r, IndexOf(s, p))

\* s.replace(/c/g, r) and s.replace(/cc/g, r): left to right, non-overlapping
RECURSIVE ReplaceAll(_, _, _)
ReplaceAll(s, p, r) ==
    IF s = <<>> THEN <<>>
    ELSE IF StartsWith(s, p)
         THEN r \o ReplaceAll(SubSeq(s, Len(p) + 1, Len(s)), p, r)
         ELSE <<Head(s)>> \o ReplaceAll(Tail(s), p, r)

RECURSIVE Split(_, _)
\* s cut at the separator at position i, the rest split further
SplitAt(s, sep, i) ==
    IF i = 0 THEN <<s>>
    ELSE <<SubSeq(s, 1, i - 1)>> \o Split(SubSeq(s, i + 1, Len(s)), sep)

\* s.split(sep) for a one-character separator
Split(s, sep) == SplitAt(s, sep, IndexOf(s, <<sep>>))

\* parts.join(sep)
RECURSIVE Join(_, _)
Join(parts, sep) ==
    IF parts = <<>> THEN <<>>
    ELSE IF Len(parts) = 1 THEN parts[1]
    ELSE parts[1] \o sep \o Join(Tail(parts), sep)

\* length of the longest run of \w characters at the start of s
RECURSIVE WordRun(_)
WordRun(s) == IF s # <<>> /\ IsWordChar(Head(s)) THEN 1 + WordRun(Tail(s)) ELSE 0

RECURSIVE ReplaceDotted(_)
\* one step at the head of s, n being the length of the \w run after the head
ReplaceDottedHead(s, n) ==
    IF Head(s) = "." /\ n > 0 /\ Len(s) >= n + 2 /\ s[n + 2] = "."
    THEN <<":">> \o SubSeq(s, 2, n + 1) \o ReplaceDotted(SubSeq(s, n + 3, Len(s)))
    ELSE <<Head(s)>> \o ReplaceDotted(Tail(s))

\* s.replace(/\.(\w+)\./g, ':$1')
ReplaceDotted(s) == IF s = <<>> THEN <<>> ELSE ReplaceDottedHead(s, WordRun(Tail(s)))

(***************************************************************************)
(* parseProcedureName                                                       *)
(***************************************************************************)
DefaultPrefix == <<"a", "p", "i", "_">>

\* the replace calls with the single underscore replaced first
RenderUrlSingleFirst(rest) ==
    ReplaceDotted(ReplaceAll(ReplaceAll(rest, <<"_">>, <<"-">>), <<"_", "_">>, <<"/">>))

\* the three chained replace calls that render the url
RenderUrl(rest) ==
    ReplaceDotted(ReplaceAll(ReplaceAll(rest, <<"_", "_">>, <<"/">>), <<"_">>, <<"-">>))

\* const [methodPart, ...urlParts] = parts; return [method, `/${url}`]
MethodAndUrl(parts) ==
    <<ToUpperCase(Head(parts)), <<"/">> \o RenderUrl(Join(Tail(parts), <<"_">>))>>

\* procedureName.replace(procedureNamePrefix, '').split('_'), then the method and the url
parseProcedureName(procedureName, procedureNamePrefix) ==
    MethodAndUrl(Split(ReplaceFirst(procedureName, procedureNamePrefix, <<>>), "_"))

(***************************************************************************)
(* Bounded input domains and the procedure names of the examples            *)
(***************************************************************************)
\* the sequences over S of length at most n
RECURSIVE SeqsUpTo(_, _)
SeqsUpTo(S, n) ==
    IF n = 0 THEN {<<>>}
    ELSE LET shorter == SeqsUpTo(S, n - 1)
         IN  shorter \cup {Append(s, c) : s \in {t \in shorter : Len(t) = n - 1}, c \in S}

HelloWorldName == <<"a", "p", "i", "_", "g", "e", "t", "_", "h", "e", "l", "l", "o",
                    "_", "_", "w", "o", "r", "l", "d">>
UpdateProfileName == <<"a", "p", "i", "_", "p", "o", "s", "t", "_", "u", "s", "e", "r",
                       ".", "i", "d", ".", "_", "_", "u", "p", "d", "a", "t", "e", "_",
                       "p", "r", "o", "f", "i", "l", "e">>

(***************************************************************************)
(* JavaScript values: what a row field, a result set, a payload can hold    *)
(***************************************************************************)
Undefined == [t |-> "undefined"]
Null      == [t |-> "null"]
Bool(b)   == [t |-> "boolean", b |-> b]
Num(n)    == [t |-> "number", n |-> n]
Str(s)    == [t |-> "string", s |-> s]
Arr(xs)   == [t |-> "array", items |-> xs]
Obj(ps)   == [t |-> "object", props |-> ps]

\* the empty property map
NoProps == [k \in {} |-> Undefined]

\* the function members an object literal inherits from Object.prototype
ObjectPrototypeNames ==
    {<<"t", "o", "S", "t", "r", "i", "n", "g">>, <<"v", "a", "l", "u", "e", "O", "f">>,
          <<"c", "o", "n", "s", "t", "r", "u", "c", "t", "o", "r">>, <<"h", "a", "s", "O",
          "w", "n", "P", "r", "o", "p", "e", "r", "t", "y">>}

\* obj[name] is truthy for an object literal with the own keys `own`: an own key or an
\* inherited member
HasMember(own, name) == name \in own \cup ObjectPrototypeNames

\* what calling an inherited member returns: a string, a boolean or an object
InheritedCall(name) ==
    IF name = <<"t", "o", "S", "t", "r", "i", "n", "g">> THEN Str(<<"[", "o", "b", "j",
          "e", "c", "t", " ", "O", "b", "j", "e", "c", "t", "]">>)
    ELSE IF name = <<"h", "a", "s", "O", "w", "n", "P", "r", "o", "p", "e", "r", "t",
          "y">> THEN Bool(FALSE)
    ELSE Obj(NoProps)

\* ToBoolean: what `x ? a : b`, `!x` and `!!x` test
Truthy(v) ==
    CASE v.t = "undefined" -> FALSE
      [] v.t = "null"      -> FALSE
      [] v.t = "boolean"   -> v.b
      [] v.t = "number"    -> v.n # 0
      [] v.t = "string"    -> v.s # <<>>
      [] OTHER             -> TRUE

\* null and undefined: reading a property of them throws, `?.` short-circuits on them
IsNullish(v) == v.t \in {"undefined", "null"}

\* v[k] for a property name, v not nullish
Prop(v, k) == IF v.t = "object" /\ k \in DOMAIN v.props THEN v.props[k] ELSE Undefined

\* v[i] for a 0-based index, v not nullish
At(v, i) == IF v.t = "array" /\ i + 1 \in DOMAIN v.items THEN v.items[i + 1] ELSE Undefined

\* v?.[i] and v?.[k]
OptAt(v, i)   == IF IsNullish(v) THEN Undefined ELSE At(v, i)
OptProp(v, k) == IF IsNullish(v) THEN Undefined ELSE Prop(v, k)

\* the outcome of a call: a returned value or a thrown error
Return(v) == [ok |-> TRUE, value |-> v]
Throw(e)  == [ok |-> FALSE, error |-> e]

\* an Error object: its message and the fields the error handler looks at
ErrorObject(message, sqlState, isHttpError, statusCode) ==
    [message |-> message, sqlState |-> sqlState, validation |-> Undefined,
     isHttpError |-> isHttpError, statusCode |-> statusCode]

\* new Error(message), and the engine's TypeError: neither carries sqlState
NewError(message) == ErrorObject(message, Undefined, FALSE, Undefined)

MsgReadErrorOfNull ==
    <<"C", "a", "n", "n", "o", "t", " ", "r", "e", "a", "d", " ", "p", "r", "o", "p",
      "e", "r", "t", "i", "e", "s", " ", "o", "f", " ", "n", "u", "l", "l", " ", "(",
      "r", "e", "a", "d", "i", "n", "g", " ", "'", "e", "r", "r", "o", "r", "'", ")">>
MsgReadZeroOfUndefined ==
    <<"C", "a", "n", "n", "o", "t", " ", "r", "e", "a", "d", " ", "p", "r", "o", "p",
      "e", "r", "t", "i", "e", "s", " ", "o", "f", " ", "u", "n", "d", "e", "f", "i",
      "n", "e", "d", " ", "(", "r", "e", "a", "d", "i", "n", "g", " ", "'", "0", "'",
      ")">>
MsgNotIterable ==
    <<"o", "b", "j", "e", "c", "t", " ", "i", "s", " ", "n", "o", "t", " ", "i", "t",
      "e", "r", "a", "b", "l", "e", " ", "(", "c", "a", "n", "n", "o", "t", " ", "r",
      "e", "a", "d", " ", "p", "r", "o", "p", "e", "r", "t", "y", " ", "S", "y", "m",
      "b", "o", "l", "(", "S", "y", "m", "b", "o", "l", ".", "i", "t", "e", "r", "a",
      "t", "o", "r", ")", ")">>
MsgSplitNotFunction ==
    <<"r", "e", "s", "u", "l", "t", "M", "e", "t", "a", "d", "a", "t", "a", ".", "s",
      "c", "h", "e", "m", "a", ".", "s", "p", "l", "i", "t", " ", "i", "s", " ", "n",
      "o", "t", " ", "a", " ", "f", "u", "n", "c", "t", "i", "o", "n">>
MsgErrorInHandler ==
    <<"E", "r", "r", "o", "r", " ", "i", "n", " ", "h", "a", "n", "d", "l", "e", "r",
      " ", "f", "o", "r", " ", "p", "r", "o", "c", "e", "d", "u", "r", "e", " ">>
MsgColon ==
    <<":", " ">>

(***************************************************************************)
(* Procedures.execute, after the database answered: the result sets         *)
(***************************************************************************)
\* results.pop(): the array without its last element (the call-status element)
Pop(results) ==
    IF results.items = <<>> THEN results
    ELSE Arr(SubSeq(results.items, 1, Len(results.items) - 1))

\* results.shift(): <<removed element, remaining array>>
Shift(results) ==
    IF results.items = <<>> THEN <<Undefined, results>>
    ELSE <<Head(results.items), Arr(Tail(results.items))>>

\* results?.[0]?.[0]?.['#RESULT#']
SentinelMarker(results) == OptProp(OptAt(OptAt(results, 0), 0), "#RESULT#")

\* the leading result set taken for the envelope whatever its first row holds
DemuxShiftAlways(popped) == <<Shift(popped)[2], OptAt(Shift(popped)[1], 0)>>

\* results?.[0]?.[0]?.['#RESULT#'] ? results.shift()?.[0] : null, after results.pop()
DemuxPopped(popped) ==
    IF Truthy(SentinelMarker(popped))
    THEN <<Shift(popped)[2], OptAt(Shift(popped)[1], 0)>>
    ELSE <<popped, Null>>

\* const results = dbResponse[0] ... return [results, resultMetadata]
Demux(results) ==
    IF results.t # "array" THEN <<results, Null>> ELSE DemuxPopped(Pop(results))

(***************************************************************************)
(* Procedures.executef: the continuation applied to execute's pair          *)
(***************************************************************************)
\* parts as an array of strings
StrArray(parts) == Arr([i \in DOMAIN parts |-> Str(parts[i])])

\* schema?.split(',')
SplitSchema(schema) ==
    IF IsNullish(schema) THEN Return(Undefined)
    ELSE IF schema.t # "string" THEN Throw(NewError(MsgSplitNotFunction))
    ELSE Return(StrArray(Split(schema.s, ",")))

\* resultMetadata?.schema?.split(','): an array of strings, undefined, or a TypeError
ResultSchema(resultMetadata) == SplitSchema(OptProp(resultMetadata, "schema"))

\* {error: !!error, success: !!success, message}
ErrorPayload(resultMetadata) ==
    Obj([error   |-> Bool(Truthy(Prop(resultMetadata, "error"))),
         success |-> Bool(Truthy(Prop(resultMetadata, "success"))),
         message |-> Prop(resultMetadata, "message")])

DescriptorObject == <<"o", "b", "j", "e", "c", "t">>

\* the callback returning the whole result set whatever the descriptor
PrepareOneWholeSet(results, type, index) == Return(At(results, index))

\* the callback of resultSchema.map at one index; results[index][0] throws when
\* results[index] is undefined
PrepareOne(results, type, index) ==
    IF type = Str(DescriptorObject)
    THEN IF IsNullish(At(results, index))
         THEN Throw(NewError(MsgReadZeroOfUndefined))
         ELSE Return(At(At(results, index), 0))
    ELSE Return(At(results, index))

\* the indexes at which the callback throws
Throwing(results, resultSchema) ==
    {i \in DOMAIN resultSchema.items :
        ~PrepareOne(results, resultSchema.items[i], i - 1).ok}

\* the result sets handed on whatever the descriptors
PreparedResultOverSets(results, resultSchema) == Return(results)

\* resultSchema.map(...): the first throwing index aborts the map
PreparedResult(results, resultSchema) ==
    IF Throwing(results, resultSchema) # {}
    THEN PrepareOne(results, resultSchema.items[Least(Throwing(results, resultSchema))],
                    Least(Throwing(results, resultSchema)) - 1)
    ELSE Return(Arr([i \in DOMAIN resultSchema.items |->
                        PrepareOne(results, resultSchema.items[i], i - 1).value]))

\* if (preparedResult.length === 1) ... else ...
Prepared(preparedResult, resultMetadata) ==
    IF ~preparedResult.ok THEN preparedResult
    ELSE IF Len(preparedResult.value.items) = 1
    THEN Return(Arr(<<preparedResult.value.items[1], resultMetadata>>))
    ELSE Return(Arr(<<preparedResult.value, resultMetadata>>))

\* the body of the continuation once resultSchema is computed
ThenWithSchema(results, resultMetadata, resultSchema) ==
    IF ~resultSchema.ok THEN resultSchema
    ELSE IF ~Truthy(resultSchema.value)
    THEN IF IsNullish(resultMetadata)
         THEN Throw(NewError(MsgReadErrorOfNull))
         ELSE IF Truthy(Prop(resultMetadata, "error"))
              THEN Return(ErrorPayload(resultMetadata))
              ELSE Return(results)
    ELSE Prepared(PreparedResult(results, resultSchema.value), resultMetadata)

\* what executef resolves to (or rejects with), given execute's [results, resultMetadata]
executefThen(results, resultMetadata) ==
    ThenWithSchema(results, resultMetadata, ResultSchema(resultMetadata))


(***************************************************************************)
(* The route handler registered by registerProcedureRoutes                  *)
(***************************************************************************)
\* a reply: the status code and the value serialized as the body
Reply(status, payload) == [status |-> status, payload |-> payload]

\* the caught error rethrown as it is
HandlerErrorKeepingSqlState(procedureName, error) == error

\* throw new Error(`Error in handler for procedure ${procedure.name}: ${error.message}`)
HandlerError(procedureName, error) ==
    NewError(MsgErrorInHandler \o procedureName \o MsgColon \o error.message)

\* the status decided by the error flag alone
EnvelopeStatusIgnoringExplicit(resultMetadata) ==
    IF Truthy(Prop(resultMetadata, "error")) THEN 400 ELSE 200

\* the status passed to reply.status(...)
EnvelopeStatus(resultMetadata) ==
    IF Truthy(Prop(resultMetadata, "status")) THEN Prop(resultMetadata, "status").n
    ELSE IF Truthy(Prop(resultMetadata, "error")) THEN 400
    ELSE 200

\* the try block after const [results, resultMetadata] = await ...
HandlerReply(results, resultMetadata) ==
    IF ~Truthy(resultMetadata) THEN Return(Reply(200, results))
    ELSE IF Truthy(Prop(resultMetadata, "error"))
    THEN Return(Reply(EnvelopeStatus(resultMetadata), ErrorPayload(resultMetadata)))
    ELSE Return(Reply(EnvelopeStatus(resultMetadata), results))

\* the body of the handler's try block, given what executef settled to;
\* a reply whose status was never set goes out with the framework's 200
handlerTry(outcome) ==
    IF ~outcome.ok THEN outcome
    ELSE IF outcome.value.t # "array" THEN Throw(NewError(MsgNotIterable))
    ELSE HandlerReply(At(outcome.value, 0), At(outcome.value, 1))


\* a catch that answers with an empty reply instead of rethrowing
HandlerCatchSwallowing(procedureName, tried) ==
    IF tried.ok THEN tried ELSE Return(Reply(200, Null))

\* catch (error) { throw new Error(...) }
HandlerCatch(procedureName, tried) ==
    IF tried.ok THEN tried ELSE Throw(HandlerError(procedureName, tried.error))

\* handler: async (request, reply) => { try { ... } catch (error) { ... } }
handler(procedureName, outcome) == HandlerCatch(procedureName, handlerTry(outcome))

(***************************************************************************)
(* errorHandler (middleware/errorHandler.ts, the version in force)          *)
(***************************************************************************)
CodeInternalServerError ==
    <<"I", "N", "T", "E", "R", "N", "A", "L", "_", "S", "E", "R", "V", "E", "R", "_",
      "E", "R", "R", "O", "R">>
MsgInternalServerError ==
    <<"I", "n", "t", "e", "r", "n", "a", "l", " ", "S", "e", "r", "v", "e", "r", " ",
      "E", "r", "r", "o", "r">>
TypeGeneral ==
    <<"G", "E", "N", "E", "R", "A", "L">>
TypeField ==
    <<"F", "I", "E", "L", "D">>
CodeInternalValidationError ==
    <<"I", "N", "T", "E", "R", "N", "A", "L", "_", "V", "A", "L", "I", "D", "A", "T",
      "I", "O", "N", "_", "E", "R", "R", "O", "R">>
CodeValidationError ==
    <<"V", "A", "L", "I", "D", "A", "T", "I", "O", "N", "_", "E", "R", "R", "O", "R">>
MsgToUpperCaseOfUndefined ==
    <<"C", "a", "n", "n", "o", "t", " ", "r", "e", "a", "d", " ", "p", "r", "o", "p",
      "e", "r", "t", "i", "e", "s", " ", "o", "f", " ", "u", "n", "d", "e", "f", "i",
      "n", "e", "d", " ", "(", "r", "e", "a", "d", "i", "n", "g", " ", "'", "t", "o",
      "U", "p", "p", "e", "r", "C", "a", "s", "e", "'", ")">>
MsgBadStatusCode ==
    <<"C", "a", "l", "l", "e", "d", " ", "r", "e", "p", "l", "y", " ", "w", "i", "t",
      "h", " ", "a", "n", " ", "i", "n", "v", "a", "l", "i", "d", " ", "s", "t", "a",
      "t", "u", "s", " ", "c", "o", "d", "e", ":", " ", "N", "a", "N">>

\* the value of a string of decimal digits
RECURSIVE DigitsValue(_)
DigitsValue(s) ==
    IF s = <<>> THEN 0
    ELSE 10 * DigitsValue(SubSeq(s, 1, Len(s) - 1))
            + ((CHOOSE i \in DOMAIN Digits : Digits[i] = s[Len(s)]) - 1)

\* Number(s) is NaN: s is not a decimal numeral (the empty string converts to 0)
IsNaNString(s) == \E i \in DOMAIN s : s[i] \notin Range(Digits)

\* errorParts[i] (0-based), undefined past the end
Part(errorParts, i) == IF i + 1 \in DOMAIN errorParts THEN Str(errorParts[i + 1]) ELSE Undefined

\* the reply of the final 500 branch
InternalServerError ==
    Reply(500, Obj([error   |-> Bool(TRUE),
                    type    |-> Str(TypeGeneral),
                    code    |-> Str(CodeInternalServerError),
                    message |-> Str(MsgInternalServerError)]))

\* if (error instanceof HttpError) ... and the final 500
AfterSqlState(error) ==
    IF error.isHttpError
    THEN Return(Reply(error.statusCode.n,
                      Obj([error   |-> Bool(TRUE),
                           type    |-> Str(TypeGeneral),
                           message |-> Str(error.message)])))
    ELSE Return(InternalServerError)

\* the branches on type, once the message is split; reply.status(...) is called before
\* the object handed to send is built
SignalledParts(error, errorParts, statusCode, type) ==
    IF type = TypeGeneral
    THEN IF IsNaNString(statusCode.s) THEN Throw(NewError(MsgBadStatusCode))
         ELSE IF IsNullish(Part(errorParts, 2))
         THEN Throw(NewError(MsgToUpperCaseOfUndefined))
         ELSE Return(Reply(DigitsValue(statusCode.s),
                           Obj([error   |-> Bool(TRUE),
                                code    |-> Str(ToUpperCase(Part(errorParts, 2).s)),
                                type    |-> Str(type),
                                message |-> Part(errorParts, 3)])))
    ELSE IF type = TypeField
    THEN IF IsNaNString(statusCode.s) THEN Throw(NewError(MsgBadStatusCode))
         ELSE IF IsNullish(Part(errorParts, 3))
         THEN Throw(NewError(MsgToUpperCaseOfUndefined))
         ELSE Return(Reply(DigitsValue(statusCode.s),
                           Obj([error  |-> Bool(TRUE),
                                code   |-> Str(CodeInternalValidationError),
                                type   |-> Str(type),
                                errors |-> Arr(<<Obj(
                                    [code    |-> Str(ToUpperCase(Part(errorParts, 3).s)),
                                     path    |-> StrArray(Split(Part(errorParts, 2).s,
                                           ".")),
                                     message |-> Part(errorParts, 4)])>>)])))
    ELSE AfterSqlState(error)

\* const errorParts = error.message.split('|'); the type is errorParts[1].toUpperCase()
SplitMessage(error, errorParts) ==
    IF IsNullish(Part(errorParts, 1)) THEN Throw(NewError(MsgToUpperCaseOfUndefined))
    ELSE SignalledParts(error, errorParts, Part(errorParts, 0),
                        ToUpperCase(Part(errorParts, 1).s))

\* the branch taken for a signalled application error
SignalledError(error) == SplitMessage(error, Split(error.message, "|"))

\* errorHandler(error, request, reply): the reply it sends, or what it throws
errorHandler(error) ==
    IF Truthy(error.validation)
    THEN Return(Reply(400, Obj([error  |-> Bool(TRUE),
                                code   |-> Str(CodeValidationError),
                                type   |-> Str(TypeField),
                                errors |-> error.validation])))
    ELSE IF Truthy(error.sqlState)
              /\ (StartsWith(error.sqlState.s, <<"4", "5">>) \/ IsNaNString(error.sqlState.s))
         THEN SignalledError(error)
         ELSE AfterSqlState(error)


(***************************************************************************)
(* Procedures of the catalog and their comment tags                         *)
(***************************************************************************)
\* a comment-parser Spec: @tag {type} name description
Tag(tag, type, name, description) ==
    [tag |-> tag, type |-> type, name |-> name, description |-> description]

\* a row of the catalog query, after JSON.parse of its parameters
Procedure(name, metadata, parameters) ==
    [name |-> name, metadata |-> metadata, parameters |-> parameters]

\* metadata.filter((tag) => tag.tag === kind), order kept
RECURSIVE FilterTags(_, _)
FilterTags(metadata, kind) ==
    IF metadata = <<>> THEN <<>>
    ELSE IF Head(metadata).tag = kind
         THEN <<Head(metadata)>> \o FilterTags(Tail(metadata), kind)
         ELSE FilterTags(Tail(metadata), kind)

\* the position after the longest run of \w characters of s that starts at position i
RECURSIVE WordEnd(_, _)
WordEnd(s, i) == IF i <= Len(s) /\ IsWordChar(s[i]) THEN WordEnd(s, i + 1) ELSE i

\* whether (\w+)> matches s from position b, the first group having ended before it
AliasGroupAt(s, b) ==
    WordEnd(s, b) > b /\ WordEnd(s, b) <= Len(s) /\ s[WordEnd(s, b)] = ">"

\* whether /(\w+)<(\w+)>/ matches s from position i, e being the end of the \w run at i
MatchesFrom(s, i, e) == e > i /\ e <= Len(s) /\ s[e] = "<" /\ AliasGroupAt(s, e + 1)

\* the positions of s from which the pattern matches
MatchStarts(s) == {i \in DOMAIN s : MatchesFrom(s, i, WordEnd(s, i))}

\* the two groups of the match from position i, e being the end of the \w run at i
MatchGroups(s, i, e) == <<SubSeq(s, i, e - 1), SubSeq(s, e + 1, WordEnd(s, e + 1) - 1)>>

\* the leftmost of the matches that start at the positions in starts
LeftmostMatch(s, starts) ==
    IF starts = {} THEN <<>>
    ELSE MatchGroups(s, Least(starts), WordEnd(s, Least(starts)))

\* tag.name.match(/(\w+)<(\w+)>/): <<name, alias>> of the leftmost match, <<>> with none
NameAliasMatch(s) == LeftmostMatch(s, MatchStarts(s))

\* match ? match[1] : tag.name
NameOfMatch(tag, match) == IF match = <<>> THEN tag.name ELSE match[1]

\* const name = match ? match[1] : tag.name
ParamName(tag) == NameOfMatch(tag, NameAliasMatch(tag.name))

\* match ? match[2] : tag.name
AliasOfMatch(tag, match) == IF match = <<>> THEN tag.name ELSE match[2]

\* const alias = match ? match[2] : tag.name
ParamAlias(tag) == AliasOfMatch(tag, NameAliasMatch(tag.name))

(***************************************************************************)
(* getParamMetadata                                                         *)
(***************************************************************************)
FromQuerystring == <<"q", "u", "e", "r", "y", "s", "t", "r", "i", "n", "g">>
FromParams      == <<"p", "a", "r", "a", "m", "s">>
FromBody        == <<"b", "o", "d", "y">>
FromHeaders     == <<"h", "e", "a", "d", "e", "r", "s">>
FromUser        == <<"u", "s", "e", "r">>
FromRequest     == <<"r", "e", "q", "u", "e", "s", "t">>

allowedGetFromValues ==
    {FromQuerystring, FromParams, FromBody, FromHeaders, FromUser, FromRequest}

\* a binding that is kept once the name has one
WithBindingKeepingFirst(acc, name, binding) ==
    [n \in DOMAIN acc \cup {name} |-> IF n \in DOMAIN acc THEN acc[n] ELSE binding]

\* acc[name] = binding
WithBinding(acc, name, binding) ==
    [n \in DOMAIN acc \cup {name} |-> IF n = name THEN binding ELSE acc[n]]

\* the accumulator after one tag: acc[name] = {name, alias, getFrom, description}
ParamMetadataStep(acc, tag) ==
    WithBinding(acc, ParamName(tag),
                [name |-> ParamName(tag), alias |-> ParamAlias(tag),
                 getFrom |-> tag.type, description |-> tag.description])

\* metadata.reduce(...): the map of bindings, or the first thrown error
RECURSIVE ParamMetadataFrom(_, _)
ParamMetadataFrom(acc, metadata) ==
    IF metadata = <<>> THEN Return(acc)
    ELSE IF Head(metadata).tag # "param" THEN ParamMetadataFrom(acc, Tail(metadata))
    ELSE IF Head(metadata).type \notin allowedGetFromValues
         THEN Throw(NewError(<<"I", "n", "v", "a", "l", "i", "d", " ", "g", "e", "t", "F",
               "r", "o", "m", " ", "v", "a", "l", "u", "e", ":", " ">> \o Head(metadata).type
                                 \o <<" ", "f", "o", "r", " ", "p", "a", "r", "a", "m", "e",
                                       "t", "e", "r", ":", " ">> \o ParamName(Head(metadata))))
         ELSE ParamMetadataFrom(ParamMetadataStep(acc, Head(metadata)), Tail(metadata))

NoBindings == [n \in {} |-> Undefined]

\* getParamMetadata(metadata): the reduce started from {}
getParamMetadata(metadata) == ParamMetadataFrom(NoBindings, metadata)

(***************************************************************************)
(* ZodSchemaParser.parse and generateZodSchema                              *)
(***************************************************************************)
\* a schema node built by the expression text
ZodNode(expr) == [t |-> "zod", expr |-> expr]

\* "x.Name()" for the one-letter namespace x: the Name, else <<>>
CallOf(string, namespace) ==
    IF /\ Len(string) >= 5
       /\ SubSeq(string, 1, 2) = <<namespace, ".">>
       /\ SubSeq(string, Len(string) - 1, Len(string)) = <<"(", ")">>
       /\ WordRun(SubSeq(string, 3, Len(string))) = Len(string) - 4
    THEN SubSeq(string, 3, Len(string) - 2)
    ELSE <<>>


\* "c.Name=z.builder": the Name assigned to and the text assigned
AssignName(string) == SubSeq(string, 3, 2 + WordRun(SubSeq(string, 3, Len(string))))
AssignRest(string) ==
    SubSeq(string, 4 + WordRun(SubSeq(string, 3, Len(string))), Len(string))

\* the script assigns a builder of z to a member of c
IsAssign(string) ==
    /\ StartsWith(string, <<"c", ".">>)
    /\ WordRun(SubSeq(string, 3, Len(string))) > 0
    /\ Len(string) >= 3 + WordRun(SubSeq(string, 3, Len(string)))
    /\ string[3 + WordRun(SubSeq(string, 3, Len(string)))] = "="
    /\ StartsWith(AssignRest(string), <<"z", ".">>)
    /\ Len(AssignRest(string)) > 2
    /\ WordRun(SubSeq(AssignRest(string), 3, Len(AssignRest(string)))) =
           Len(AssignRest(string)) - 2

\* a builder function of z, not called
BuilderFunction(expr) == [t |-> "function", expr |-> expr]

\* the validations object after the script ran: sandbox.c is the object itself, so an
\* assignment in the script adds the member to it
ContextAfter(string, validations) ==
    IF IsAssign(string) THEN validations \cup {AssignName(string)} ELSE validations

\* script.runInContext(this.context) for the expression shapes the tags use: the empty
\* script (undefined), a builder call z.name(), a custom validator call c.name(), an
\* assignment c.name=z.builder (its value is the builder); any other text is a script
\* that does not evaluate
RunInContext(string, validations) ==
    IF string = <<>> THEN Return(Undefined)
    ELSE IF CallOf(string, "z") # <<>> THEN Return(ZodNode(string))
    ELSE IF CallOf(string, "c") # <<>>
         THEN IF CallOf(string, "c") \in validations
              THEN Return(ZodNode(string))
              ELSE IF CallOf(string, "c") \in ObjectPrototypeNames
              THEN Return(InheritedCall(CallOf(string, "c")))
              ELSE Throw(NewError(<<"c", ".">> \o CallOf(string, "c") \o <<" ", "i", "s",
                    " ", "n", "o", "t", " ", "a", " ", "f", "u", "n", "c", "t", "i", "o",
                    "n">>))
    ELSE IF IsAssign(string) THEN Return(BuilderFunction(AssignRest(string)))
    ELSE Throw(NewError(<<"U", "n", "e", "x", "p", "e", "c", "t", "e", "d", " ", "t", "o",
          "k", "e", "n", " ", "i", "n", " ", "s", "c", "r", "i", "p", "t">>))

\* catch (error) { throw new Error(`Error parsing Zod schema: ... in schema: ${string}`) }
ParseCatch(string, run) ==
    IF run.ok THEN run
    ELSE Throw(NewError(<<"E", "r", "r", "o", "r", " ", "p", "a", "r", "s", "i", "n", "g",
          " ", "Z", "o", "d", " ", "s", "c", "h", "e", "m", "a", ":",
          " ">> \o run.error.message
                            \o <<" ", "i", "n", " ", "s", "c", "h", "e", "m", "a", ":",
                                  " ">> \o string))

\* ZodSchemaParser.parse
ParseSchema(string, validations) == ParseCatch(string, RunInContext(string, validations))

\* the sections if a user-bound parameter had one as well
SchemaSectionsWithUser == {FromQuerystring, FromParams, FromBody, FromHeaders, FromUser}

SchemaSections == {FromQuerystring, FromParams, FromBody, FromHeaders}

NoSchema == [s \in {} |-> Undefined]

\* schema[section] = (schema[section] ?? z.object({})).extend({[alias]: schemaPart})
ExtendSection(schema, section, alias, schemaPart) ==
    [s \in DOMAIN schema \cup {section} |->
        IF s # section THEN schema[s]
        ELSE [a \in (IF section \in DOMAIN schema THEN DOMAIN schema[section] ELSE {})
                        \cup {alias} |->
                 IF a = alias THEN schemaPart ELSE schema[section][a]]]

RECURSIVE ZodSchemaFrom(_, _, _, _)
\* the body of the loop for one tag, schemaPart being what the parser made of its text
ZodSchemaTag(schema, procedure, metadata, validations, tag, schemaPart) ==
    IF tag.tag # "param"
    THEN ZodSchemaFrom(schema, procedure, Tail(metadata), validations)
    ELSE IF ~schemaPart.ok
    THEN Throw(NewError(<<"E", "r", "r", "o", "r", " ", "p", "a", "r", "s", "i", "n", "g",
          " ", "s", "c", "h", "e", "m", "a", " ", "f", "o", "r", " ", "p", "a", "r", "a",
          "m", "e", "t", "e", "r", " ">> \o ParamName(tag)
                            \o <<" ", "i", "n", " ", "p", "r", "o", "c", "e", "d", "u",
                                  "r", "e", " ">> \o procedure.name \o <<":", " ">>
                            \o schemaPart.error.message))
    ELSE IF tag.type \in SchemaSections
    THEN ZodSchemaFrom(ExtendSection(schema, tag.type, ParamAlias(tag), schemaPart.value),
                       procedure, Tail(metadata), ContextAfter(tag.description, validations))
    ELSE IF tag.type \in {FromUser, FromRequest}
    THEN ZodSchemaFrom(schema, procedure, Tail(metadata),
                       ContextAfter(tag.description, validations))
    ELSE Throw(NewError(<<"U", "n", "k", "n", "o", "w", "n", " ", "p", "a", "r", "a", "m",
          "e", "t", "e", "r", " ", "t", "y", "p", "e", ":", " ">> \o tag.type
                            \o <<" ", "f", "o", "r", " ", "p", "a", "r", "a", "m", "e",
                                  "t", "e", "r", ":", " ">> \o tag.name))

\* the loop over the tags: the schema, or the first thrown error
ZodSchemaFrom(schema, procedure, metadata, validations) ==
    IF metadata = <<>> THEN Return(schema)
    ELSE ZodSchemaTag(schema, procedure, metadata, validations, Head(metadata),
                      ParseSchema(Head(metadata).description, validations))

\* generateZodSchema: the loop started from the empty schema
generateZodSchema(procedure, metadata, validations) ==
    ZodSchemaFrom(NoSchema, procedure, metadata, validations)

(***************************************************************************)
(* generateGuards and the @hooks tags                                       *)
(***************************************************************************)
\* String.prototype.trim for blanks
RECURSIVE TrimLeft(_)
TrimLeft(s) == IF s # <<>> /\ Head(s) = " " THEN TrimLeft(Tail(s)) ELSE s

RECURSIVE TrimRight(_)
TrimRight(s) ==
    IF s # <<>> /\ s[Len(s)] = " " THEN TrimRight(SubSeq(s, 1, Len(s) - 1)) ELSE s

Trim(s) == TrimRight(TrimLeft(s))

\* parts.map((x) => x.trim())
TrimAll(parts) == [i \in DOMAIN parts |-> Trim(parts[i])]

\* text.split(',').map((x) => x.trim())
SplitTrim(text) == TrimAll(Split(text, ","))

\* an entry of a hook chain: the function and the arguments its factory was given
ChainEntry(fn, params) == [fn |-> fn, params |-> params]

\* the positions of the guards that guardMap does not have
MissingGuards(guards, guardMap) ==
    {i \in DOMAIN guards : ~HasMember(guardMap, guards[i].name)}

\* guardMap[guard.name](params): the guard the factory makes, or what an inherited
\* member returns
GuardEntry(name, guardMap, params) ==
    IF name \in guardMap THEN ChainEntry(name, params) ELSE InheritedCall(name)

\* guards.map(...): the guards in tag order, or the first thrown error
GuardsOf(procedure, guards, guardMap, missing) ==
    IF missing # {}
    THEN Throw(NewError(<<"G", "u", "a", "r", "d", " ", "n", "o", "t", " ", "f", "o", "u",
          "n", "d", ":", " ">> \o guards[Least(missing)].name
                            \o <<" ", "i", "n", " ", "p", "r", "o", "c", "e", "d", "u",
                                  "r", "e", ":", " ">> \o procedure.name))
    ELSE Return([i \in DOMAIN guards |->
                    GuardEntry(guards[i].name, guardMap,
                               IF guards[i].description # <<>>
                               THEN SplitTrim(guards[i].description) ELSE <<>>)])

\* metadata.filter((tag) => tag.tag === 'guard').map(...)
generateGuards(procedure, metadata, guardMap) ==
    GuardsOf(procedure, FilterTags(metadata, "guard"), guardMap,
             MissingGuards(FilterTags(metadata, "guard"), guardMap))

allowedHookTypes ==
    <<<<"o", "n", "R", "e", "q", "u", "e", "s", "t">>, <<"p", "r", "e", "P", "a", "r", "s",
          "i", "n", "g">>, <<"p", "r", "e", "V", "a", "l", "i", "d", "a", "t", "i", "o",
          "n">>, <<"p", "r", "e", "H", "a", "n", "d", "l", "e", "r">>,
      <<"p", "r", "e", "S", "e", "r", "i", "a", "l", "i", "z", "a", "t", "i", "o",
            "n">>, <<"o", "n", "S", "e", "n", "d">>, <<"o", "n", "R", "e", "s", "p", "o",
            "n", "s", "e">>, <<"o", "n", "T", "i", "m", "e", "o", "u", "t">>, <<"o", "n",
            "E", "r", "r", "o", "r">>>>

AllowedHookTypesText ==
    <<"o", "n", "R", "e", "q", "u", "e", "s", "t", ",", " ", "p", "r", "e", "P", "a", "r",
          "s", "i", "n", "g", ",", " ", "p", "r", "e", "V", "a", "l", "i", "d", "a", "t",
          "i", "o", "n", ",", " ", "p", "r", "e", "H", "a", "n", "d", "l", "e", "r", ",",
          " ", "p", "r", "e", "S", "e", "r", "i", "a", "l", "i", "z", "a", "t", "i", "o",
          "n", ",", " ", "o", "n", "S", "e", "n", "d", ",", " ", "o", "n", "R", "e", "s",
          "p", "o", "n", "s", "e", ",", " ", "o", "n", "T", "i", "m", "e", "o", "u", "t",
          ",", " ", "o", "n", "E", "r", "r", "o", "r">>

NoRouteHooks == [h \in {} |-> <<>>]

\* the positions of the function names that the hooks module does not export
UnknownHooks(functionNames, hooks) ==
    {i \in DOMAIN functionNames : ~HasMember(hooks, functionNames[i])}

\* routeHooks[hookType] = functionNames.map(...)
WithHooks(routeHooks, hookType, functionNames) ==
    [h \in DOMAIN routeHooks \cup {hookType} |->
        IF h = hookType
        THEN [i \in DOMAIN functionNames |-> ChainEntry(functionNames[i], <<>>)]
        ELSE routeHooks[h]]

RECURSIVE RouteHooksFrom(_, _, _, _)
\* the body of the loop for one @hooks tag
RouteHooksTag(routeHooks, procedure, hookTags, hooks, hookType, functionsString, functionNames) ==
    IF hookType = <<>> \/ functionsString = <<>>
    THEN Throw(NewError(<<"I", "n", "v", "a", "l", "i", "d", " ", "@", "h", "o", "o", "k",
          "s", " ", "t", "a", "g", " ", "f", "o", "r", "m", "a", "t", " ", "i", "n", " ",
          "p", "r", "o", "c", "e", "d", "u", "r", "e", " ">> \o procedure.name))
    ELSE IF HasMember(DOMAIN routeHooks, hookType)
    THEN Throw(NewError(<<"M", "u", "l", "t", "i", "p", "l", "e", " ", "d", "e", "c", "l",
          "a", "r", "a", "t", "i", "o", "n", "s", " ", "o", "f", " ", "t", "h", "e", " ",
          "s", "a", "m", "e", " ", "h", "o", "o", "k", "T", "y", "p", "e", " ",
          "'">> \o hookType
                            \o <<"'", " ", "i", "n", " ", "p", "r", "o", "c", "e", "d",
                                  "u", "r", "e", " ">> \o procedure.name))
    ELSE IF hookType \notin Range(allowedHookTypes)
    THEN Throw(NewError(<<"I", "n", "v", "a", "l", "i", "d", " ", "h", "o", "o", "k", "T",
          "y", "p", "e", " ", "'">> \o hookType \o <<"'", " ", "i", "n", " ", "p", "r",
          "o", "c", "e", "d", "u", "r", "e", " ">>
                            \o procedure.name \o <<".", " ", "A", "l", "l", "o", "w", "e",
                                  "d", " ", "h", "o", "o", "k", " ", "t", "y", "p", "e",
                                  "s", " ", "a", "r", "e", ":", " ">>
                            \o AllowedHookTypesText))
    ELSE IF UnknownHooks(functionNames, hooks) # {}
    THEN Throw(NewError(<<"H", "o", "o", "k", " ", "f", "u", "n", "c", "t", "i", "o", "n",
          " ", "'">>
                            \o functionNames[Least(UnknownHooks(functionNames, hooks))]
                            \o <<"'", " ", "n", "o", "t", " ", "f", "o", "u", "n", "d",
                                  " ", "i", "n", " ", "h", "o", "o", "k", "s", " ", "m",
                                  "o", "d", "u", "l", "e", " ", "f", "o", "r", " ", "p",
                                  "r", "o", "c", "e", "d", "u", "r", "e", " ">>
                            \o procedure.name))
    ELSE RouteHooksFrom(WithHooks(routeHooks, hookType, functionNames),
                        procedure, Tail(hookTags), hooks)

\* the loop over the @hooks tags: routeHooks, or the first thrown error
RouteHooksFrom(routeHooks, procedure, hookTags, hooks) ==
    IF hookTags = <<>> THEN Return(routeHooks)
    ELSE RouteHooksTag(routeHooks, procedure, hookTags, hooks, Head(hookTags).name,
                       Head(hookTags).description, SplitTrim(Head(hookTags).description))

(***************************************************************************)
(* registerProcedureRoutes: the body of the loop over the procedures        *)
(***************************************************************************)
\* what registerProcedureRoutes is configured with and has loaded
Options(procedureNamePrefix, guardMap, hooks, validations) ==
    [procedureNamePrefix |-> procedureNamePrefix, guardMap |-> guardMap,
     hooks |-> hooks, validations |-> validations]

SetAuthContext == ChainEntry(<<"s", "e", "t", "A", "u", "t", "h", "C", "o", "n", "t", "e",
      "x", "t">>, <<>>)

\* routeOptions before the hooks are merged: preValidation: [setAuthContext, ...guards]
InitialChains(guards) ==
    [h \in Range(allowedHookTypes) |->
        IF h = <<"p", "r", "e", "V", "a", "l", "i", "d", "a", "t", "i", "o",
              "n">> THEN <<SetAuthContext>> \o guards ELSE <<>>]

\* the hook functions put in front of the chain instead of pushed behind it
MergeHooksInFront(chains, routeHooks) ==
    [h \in DOMAIN chains |->
        IF h \in DOMAIN routeHooks THEN routeHooks[h] \o chains[h] ELSE chains[h]]

\* (routeOptions as any)[hookType]?.push(...hookFunctions) for every entry of routeHooks
MergeHooks(chains, routeHooks) ==
    [h \in DOMAIN chains |->
        IF h \in DOMAIN routeHooks THEN chains[h] \o routeHooks[h] ELSE chains[h]]

RouteOptions(procedure, method, url, chains, schema) ==
    [procedure |-> procedure.name, method |-> method, url |-> url,
     chains |-> chains, schema |-> schema]

\* the methods app.route accepts
SupportedMethods ==
    {<<"D", "E", "L", "E", "T", "E">>, <<"G", "E", "T">>, <<"H", "E", "A", "D">>, <<"P",
          "A", "T", "C", "H">>, <<"P", "O", "S", "T">>, <<"P", "U", "T">>, <<"O", "P", "T",
          "I", "O", "N", "S">>}

\* the phases of routeOptions that hold an entry which is not a function
NotFunctions(chains) ==
    {h \in DOMAIN chains : \E i \in DOMAIN chains[h] : "fn" \notin DOMAIN chains[h][i]}

\* app.route(routeOptions): the framework refuses a hook that is not a function, an
\* unsupported method and a method and url already declared
AppRoute(registered, routeOptions) ==
    IF NotFunctions(routeOptions.chains) # {}
    THEN Throw(NewError((CHOOSE h \in NotFunctions(routeOptions.chains) : TRUE)
                            \o <<" ", "h", "o", "o", "k", " ", "s", "h", "o", "u", "l",
                                  "d", " ", "b", "e", " ", "a", " ", "f", "u", "n", "c",
                                  "t", "i", "o", "n">>))
    ELSE IF routeOptions.method \notin SupportedMethods
    THEN Throw(NewError(routeOptions.method \o <<" ", "m", "e", "t", "h", "o", "d", " ",
          "i", "s", " ", "n", "o", "t", " ", "s", "u", "p", "p", "o", "r", "t", "e", "d",
          ".">>))
    ELSE IF \E i \in DOMAIN registered :
                registered[i].method = routeOptions.method /\ registered[i].url = routeOptions.url
    THEN Throw(NewError(<<"M", "e", "t", "h", "o", "d", " ",
          "'">> \o routeOptions.method \o <<"'", " ", "a", "l", "r", "e", "a", "d", "y",
          " ", "d", "e", "c", "l", "a", "r", "e", "d", " ", "f", "o", "r", " ", "r", "o",
          "u", "t", "e", " ", "'">>
                            \o routeOptions.url \o <<"'">>))
    ELSE Return(Append(registered, routeOptions))

\* the rest of the try block once the parts of the route are computed
CompileRoute(procedure, registered, routeHooks, methodUrl, schema, guards, procedureParamMetadata) ==
    IF ~routeHooks.ok THEN routeHooks
    ELSE IF ~schema.ok THEN schema
    ELSE IF ~guards.ok THEN guards
    ELSE IF ~procedureParamMetadata.ok THEN procedureParamMetadata
    ELSE AppRoute(registered,
                  RouteOptions(procedure, methodUrl[1], methodUrl[2],
                               MergeHooks(InitialChains(guards.value), routeHooks.value),
                               schema.value))

\* the try block of one iteration: the route table after app.route, or the thrown error
CompileTry(procedure, registered, options) ==
    CompileRoute(procedure, registered,
                 RouteHooksFrom(NoRouteHooks, procedure,
                                FilterTags(procedure.metadata, "hooks"), options.hooks),
                 parseProcedureName(procedure.name, options.procedureNamePrefix),
                 generateZodSchema(procedure, procedure.metadata, options.validations),
                 generateGuards(procedure, procedure.metadata, options.guardMap),
                 getParamMetadata(procedure.metadata))

\* the error of the try block rethrown as it is
CompileRethrow(procedure, tried) == tried

\* catch (error) { throw new Error(`Error in procedure ${procedure.name}: ${error.message}`) }
CompileCatch(procedure, tried) ==
    IF tried.ok THEN tried
    ELSE Throw(NewError(<<"E", "r", "r", "o", "r", " ", "i", "n", " ", "p", "r", "o", "c",
          "e", "d", "u", "r", "e", " ">> \o procedure.name \o <<":", " ">>
                            \o tried.error.message))

\* one iteration of the loop over the procedures
CompileProcedure(procedure, registered, options) ==
    CompileCatch(procedure, CompileTry(procedure, registered, options))

(***************************************************************************)
(* Procedures.execute, up to the database call: the call arguments          *)
(***************************************************************************)
\* the decimal numeral of a natural number
RECURSIVE NumeralOf(_)
NumeralOf(n) ==
    IF n < 10 THEN <<Digits[n + 1]>> ELSE NumeralOf(n \div 10) \o <<Digits[(n % 10) + 1]>>

\* the text of the property names that request values use
KeyText == [a |-> <<"a">>, b |-> <<"b">>, id |-> <<"i", "d">>]

\* the property name of a single-property object
OnlyKey(props) == CHOOSE x \in DOMAIN props : TRUE

\* JSON.stringify of a value made of numbers, strings, booleans, null, arrays and
\* single-property objects
RECURSIVE Stringify(_)
Stringify(v) ==
    CASE v.t = "number"  -> NumeralOf(v.n)
      [] v.t = "string"  -> <<"\"">> \o v.s \o <<"\"">>
      [] v.t = "boolean" -> IF v.b THEN <<"t", "r", "u", "e">> ELSE <<"f", "a", "l", "s",
            "e">>
      [] v.t = "array"   ->
            <<"[">> \o Join([i \in DOMAIN v.items |-> Stringify(v.items[i])],
                  <<",">>) \o <<"]">>
      [] v.t = "object"  ->
            IF DOMAIN v.props = {} THEN <<"{", "}">>
            ELSE <<"{", "\"">> \o KeyText[OnlyKey(v.props)] \o <<"\"", ":">>
                     \o Stringify(v.props[OnlyKey(v.props)]) \o <<"}">>
      [] OTHER           -> <<"n", "u", "l", "l">>

\* a section of the request: request.query, request.params, request.body,
\* request.headers, requestContext.get('user'), request.requestData; fields maps a
\* property name to its value
Section(fields) == [present |-> TRUE, fields |-> fields]
AbsentSection   == [present |-> FALSE, fields |-> [a \in {} |-> Undefined]]

\* section[alias]
Field(section, alias) ==
    IF alias \in DOMAIN section.fields THEN section.fields[alias] ELSE Undefined

\* switch (paramMeta.getFrom): the section of the request the value is read from
SourceSection(getFrom, req) ==
    CASE getFrom = FromQuerystring -> req.query
      [] getFrom = FromParams      -> req.params
      [] getFrom = FromBody        -> req.body
      [] getFrom = FromHeaders     -> req.headers
      [] getFrom = FromUser        -> req.user
      [] getFrom = FromRequest     -> req.requestData

\* the value read under the parameter's own name instead of the alias
BoundValueByName(procedure, param, paramMeta, req) ==
    IF SourceSection(paramMeta.getFrom, req).present
    THEN Return(Field(SourceSection(paramMeta.getFrom, req), param))
    ELSE Return(Undefined)

\* the value read for one binding; reading from an undefined section throws, except
\* for the user source, which is read with ?.
BoundValue(procedure, param, paramMeta, req) ==
    IF paramMeta.getFrom \notin allowedGetFromValues
    THEN Throw(NewError(<<"U", "n", "k", "n", "o", "w", "n", " ", "g", "e", "t", "F", "r",
          "o", "m", " ", "v", "a", "l", "u", "e", ":", " ">> \o paramMeta.getFrom
                            \o <<" ", "f", "o", "r", " ", "p", "a", "r", "a", "m", "e",
                                  "t", "e", "r", ":", " ">> \o param
                            \o <<" ", "i", "n", " ", "p", "r", "o", "c", "e", "d", "u",
                                  "r", "e", ":", " ">> \o procedure.name))
    ELSE IF SourceSection(paramMeta.getFrom, req).present
    THEN Return(Field(SourceSection(paramMeta.getFrom, req), paramMeta.alias))
    ELSE IF paramMeta.getFrom = FromUser THEN Return(Undefined)
    ELSE Throw(NewError(<<"C", "a", "n", "n", "o", "t", " ", "r", "e", "a", "d", " ", "p",
          "r", "o", "p", "e", "r", "t", "i", "e", "s", " ", "o", "f", " ", "u", "n", "d",
          "e", "f", "i", "n", "e", "d", " ", "(", "r", "e", "a", "d", "i", "n", "g", " ",
          "'">>
                            \o (IF paramMeta.getFrom = FromRequest THEN <<"g", "e", "t">>
                                ELSE paramMeta.alias)
                            \o <<"'", ")">>))

\* null for undefined and null, the JSON text for arrays and objects, else the value
NormalizeArgument(value) ==
    IF IsNullish(value) THEN Null
    ELSE IF value.t \in {"array", "object"} THEN Str(Stringify(value))
    ELSE value

\* the end of the callback: the value read, normalized
Normalized(value) ==
    IF value.ok THEN Return(NormalizeArgument(value.value)) ELSE value

\* the callback of procedure.parameters.map for one parameter
ParamValue(procedure, req, procedureParamMetadata, param) ==
    IF param \notin DOMAIN procedureParamMetadata
    THEN Throw(NewError(<<"P", "a", "r", "a", "m", "e", "t", "e", "r", " ", "m", "e", "t",
          "a", "d", "a", "t", "a", " ", "n", "o", "t", " ", "f", "o", "u", "n", "d", " ",
          "f", "o", "r", " ", "p", "a", "r", "a", "m", "e", "t", "e", "r", ":",
          " ">> \o param
                            \o <<" ", "i", "n", " ", "p", "r", "o", "c", "e", "d", "u",
                                  "r", "e", ":", " ">> \o procedure.name))
    ELSE Normalized(BoundValue(procedure, param, procedureParamMetadata[param], req))

\* the parameters at which the callback throws
ThrowingParams(procedure, req, procedureParamMetadata) ==
    {i \in DOMAIN procedure.parameters :
        ~ParamValue(procedure, req, procedureParamMetadata, procedure.parameters[i]).ok}

\* procedure.parameters.map(...): the argument list, or the first thrown error
MappedParams(procedure, req, procedureParamMetadata, throwing) ==
    IF throwing # {}
    THEN ParamValue(procedure, req, procedureParamMetadata,
                    procedure.parameters[Least(throwing)])
    ELSE Return([i \in DOMAIN procedure.parameters |->
                    ParamValue(procedure, req, procedureParamMetadata,
                               procedure.parameters[i]).value])

\* execute up to the database call, procedureParamMetadata being getParamMetadata's outcome
ParamsWith(procedure, req, procedureParamMetadata) ==
    IF ~procedureParamMetadata.ok THEN procedureParamMetadata
    ELSE MappedParams(procedure, req, procedureParamMetadata.value,
                      ThrowingParams(procedure, req, procedureParamMetadata.value))

\* const procedureParamMetadata = getParamMetadata(procedure.metadata); const
\* procedureParams = procedure.parameters.map(...)
ProcedureParams(procedure, req) ==
    ParamsWith(procedure, req, getParamMetadata(procedure.metadata))

(***************************************************************************)
(* The database's answers to CALL                                           *)
(***************************************************************************)
\* the call-status element the driver appends after the result sets
CallStatus == Obj([fieldCount |-> Num(0), affectedRows |-> Num(0)])

\* row j of data result set i
DataRow(i, j) == Obj([set |-> Num(i), row |-> Num(j)])

\* data result sets with rows[i] rows in set i
DataSets(rows) == [i \in DOMAIN rows |-> Arr([j \in 1..rows[i] |-> DataRow(i, j)])]

\* a leading row carrying the `#RESULT#` field and the envelope fields that are present
\* (Undefined stands for a column the SELECT does not produce)
EnvelopeRow(marker, error, success, status, message, schema) ==
    LET all == [error |-> error, success |-> success, status |-> status,
                message |-> message, schema |-> schema]
    IN  Obj([k \in {"#RESULT#"} \cup {f \in DOMAIN all : all[f] # Undefined} |->
                IF k = "#RESULT#" THEN marker ELSE all[k]])

\* dbResponse[0]: the bare call status when the procedure selects nothing, else the
\* result sets followed by the call status
DbResults(sets) == IF sets = <<>> THEN CallStatus ELSE Arr(Append(sets, CallStatus))

DescriptorArray == <<"a", "r", "r", "a", "y">>

\* the schema texts with 1..n descriptors, each `object` or `array`
SchemaTexts(n) ==
    {Join(d, <<",">>) : d \in SeqsUpTo({DescriptorObject, DescriptorArray}, n) \ {<<>>}}

Envelopes ==
    {EnvelopeRow(marker, error, success, status, message, schema) :
        marker  \in {Num(1), Num(0)},
        error   \in {Undefined, Num(0), Num(1)},
        success \in {Undefined, Num(1)},
        status  \in {Undefined, Num(208), Num(410)},
        message \in {Undefined, Str(<<"g", "o", "n", "e">>)},
        schema  \in {Undefined} \cup {Str(s) : s \in SchemaTexts(MaxSets)}}

\* every answer within the bounds: up to MaxSets data result sets of up to MaxRows
\* rows, alone or behind a leading envelope row
DemuxResults ==
    {DbResults(DataSets(rows)) : rows \in SeqsUpTo(0..MaxRows, MaxSets)}
        \cup {DbResults(<<Arr(<<e>>)>> \o DataSets(rows)) :
                 e \in Envelopes, rows \in SeqsUpTo(0..MaxRows, MaxSets)}

\* an error of the driver: message and sqlState
DbError(message, sqlState) == ErrorObject(message, Str(sqlState), FALSE, Undefined)

SignalGeneral ==
    DbError(<<"4", "1", "0", "|", "g", "e", "n", "e", "r", "a", "l", "|", "g", "e", "n",
          "e", "r", "a", "l", "_", "e", "r", "r", "o", "r", "_", "k", "e", "y", "|", "T",
          "h", "i", "s", " ", "i", "s", " ", "a", " ", "g", "e", "n", "e", "r", "a", "l",
          " ", "m", "e", "s", "s", "a", "g", "e", "!">>, <<"4", "5", "0", "0", "0">>)

SignalField ==
    DbError(<<"4", "1", "0", "|", "f", "i", "e", "l", "d", "|", "f", "i", "e", "l", "d",
          "_", "k", "e", "y", "|", "T", "h", "i", "s", " ", "i", "s", " ", "a", " ", "k",
          "e", "y", " ", "s", "p", "e", "c", "i", "f", "i", "c", " ", "e", "r", "r", "o",
          "r", "!">>, <<"4", "5", "0", "0", "0">>)

SyntaxError == DbError(<<"Y", "o", "u", " ", "h", "a", "v", "e", " ", "a", "n", " ", "e",
      "r", "r", "o", "r", " ", "i", "n", " ", "y", "o", "u", "r", " ", "S", "Q", "L", " ",
      "s", "y", "n", "t", "a", "x">>, <<"4", "2", "0", "0", "0">>)

\* the answers drawn in Spec
SampleOutcomes ==
    {Throw(SignalGeneral), Throw(SignalField), Throw(SyntaxError),
     Return(DbResults(<<>>)),
     Return(DbResults(DataSets(<<1>>))),
     Return(DbResults(<<Arr(<<EnvelopeRow(Num(1), Num(1), Undefined, Num(410),
                                          Str(<<"g", "o", "n", "e">>), Undefined)>>)>>)),
     Return(DbResults(<<Arr(<<EnvelopeRow(Num(1), Num(0), Num(1), Undefined,
                                          Undefined, Str(DescriptorObject))>>)>>
                          \o DataSets(<<1>>)))}

(***************************************************************************)
(* Catalogs, configuration and requests drawn by the specifications         *)
(***************************************************************************)
HelloWorld ==
    Procedure(HelloWorldName,
              <<Tag("param", FromQuerystring, <<"p", "_", "t", "e", "s", "t", "_", "a", "<", "t", "e", "s",
                    "t", "a", ">">>, <<"z", ".", "s", "t", "r", "i", "n", "g", "(", ")">>),
                Tag("param", FromUser, <<"p", "_", "t", "e", "s", "t", "_",
                      "c", "<", "u", "u", "i", "d", ">">>, <<>>)>>,
              <<<<"p", "_", "t", "e", "s", "t", "_", "a">>, <<"p", "_", "t", "e", "s", "t",
                    "_", "c">>>>)

UpdateProfile ==
    Procedure(UpdateProfileName,
              <<Tag("param", FromParams, <<"p", "_", "i", "d", "<",
                    "i", "d", ">">>, <<"z", ".", "s", "t", "r", "i", "n", "g", "(", ")">>),
                Tag("param", FromBody, <<"p", "_", "p", "r", "o", "f", "i",
                      "l", "e", "<", "p", "r", "o", "f", "i", "l", "e", ">">>, <<"z", ".",
                      "a", "n", "y", "(", ")">>)>>,
              <<<<"p", "_", "i", "d">>, <<"p", "_", "p", "r", "o", "f", "i", "l", "e">>>>)

\* declares p_test_b and has no @param tag for it
GetOrders ==
    Procedure(<<"a", "p", "i", "_", "g", "e", "t", "_", "o", "r", "d", "e", "r", "s">>,
              <<Tag("param", FromQuerystring, <<"p", "_", "t", "e", "s", "t", "_", "a", "<", "t", "e", "s",
                    "t", "a", ">">>, <<"z", ".", "s", "t", "r", "i", "n", "g", "(", ")">>)>>,
              <<<<"p", "_", "t", "e", "s", "t", "_", "a">>, <<"p", "_", "t", "e", "s", "t",
                    "_", "b">>>>)

SampleProcedures == {HelloWorld, UpdateProfile, GetOrders}

\* the catalogs of 1..n procedures with distinct names
Catalogs(n) ==
    {c \in SeqsUpTo(SampleProcedures, n) :
        c # <<>> /\ \A i, j \in DOMAIN c : i # j => c[i].name # c[j].name}

SampleOptions ==
    Options(DefaultPrefix, {<<"a", "u", "t", "h">>, <<"r", "o", "l", "e">>, <<"p", "e", "r",
          "m", "i", "s", "s", "i", "o", "n", "s">>}, {<<"t", "e", "s", "t", "H", "o", "o",
          "k">>, <<"o", "t", "h", "e", "r", "H", "o", "o", "k">>}, {})

Request(query, params, body, headers, user, requestData) ==
    [query |-> query, params |-> params, body |-> body, headers |-> headers,
     user |-> user, requestData |-> requestData]

NoFields == [a \in {} |-> Undefined]

GetRequest ==
    Request(Section([a \in {<<"t", "e", "s", "t",
          "a">>} |-> Str(<<"x">>)]), Section(NoFields), AbsentSection,
            Section(NoFields), Section([a \in {<<"u", "u", "i", "d">>} |-> Str(<<"u",
                  "1">>)]), AbsentSection)

PostRequest ==
    Request(Section(NoFields), Section([a \in {<<"i", "d">>} |-> Str(<<"7">>)]),
            Section([a \in {<<"p", "r", "o", "f", "i", "l", "e">>} |-> Obj([a |-> Num(1)])]),
            Section(NoFields), AbsentSection, AbsentSection)

SampleRequests == {GetRequest, PostRequest}

(***************************************************************************)
(* The server: startup, then requests                                       *)
(***************************************************************************)
\* the value of a variable that holds nothing yet
Nothing == [nothing |-> TRUE]

\* this.procedures.get(procedureName)
ProcedureNamed(procedures, procedureName) ==
    CHOOSE p \in Range(procedures) : p.name = procedureName

\* .then(([results, resultMetadata]) => ...) applied to the pair execute resolves to
ThenOnPair(pair) == executefThen(pair[1], pair[2])

\* Procedures.executef once the query settled: execute's tail, then the continuation;
\* a rejected query rejects executef with the same error
executef(outcome) == IF ~outcome.ok THEN outcome ELSE ThenOnPair(Demux(outcome.value))

\* what the framework sends when the error handler itself throws
FrameworkError(error) ==
    Reply(500, Obj([statusCode |-> Num(500),
                    error      |-> Str(MsgInternalServerError),
                    message    |-> Str(error.message)]))

\* what goes out when the handler threw: the error handler's reply, or the framework's
\* when the error handler itself throws
Handled(errorHandled) ==
    IF errorHandled.ok THEN errorHandled.value ELSE FrameworkError(errorHandled.error)

\* the reply that goes out: the handler's, or the one app.setErrorHandler(errorHandler)
\* makes of the error the handler threw
Respond(outcome) ==
    IF outcome.ok THEN outcome.value ELSE Handled(errorHandler(outcome.error))

\* the iteration ends: the route is registered, or the error is thrown
Registered(compiled) ==
    IF compiled.ok
    THEN routes' = compiled.value /\ UNCHANGED <<server, startupError>>
    ELSE server' = "exited" /\ startupError' = compiled.error /\ UNCHANGED routes

\* one iteration of `for (const procedure of procedures)`; a thrown error fails the
\* plugin, app.listen rejects and startServer exits the process
RegisterRoute ==
    /\ server = "registering"
    /\ Len(routes) < Len(catalog)
    /\ Registered(CompileProcedure(catalog[Len(routes) + 1], routes, SampleOptions))
    /\ UNCHANGED <<procName, parsed, catalog, request, dbCall, dbOutcome, handled, reply>>
    /\ UNCHANGED loaderVars
    /\ UNCHANGED inflight

\* app.listen resolving while the loop is still running
ListenBeforeLoopEnds ==
    /\ server = "registering"
    /\ server' = "listening"
    /\ UNCHANGED <<procName, parsed, catalog, routes, startupError, request, dbCall,
                   dbOutcome, handled, reply>>
    /\ UNCHANGED loaderVars
    /\ UNCHANGED inflight

\* the loop ended: the plugin is loaded and app.listen resolves
Listen ==
    /\ server = "registering"
    /\ Len(routes) = Len(catalog)
    /\ server' = "listening"
    /\ UNCHANGED <<procName, parsed, catalog, routes, startupError, request, dbCall,
                   dbOutcome, handled, reply>>
    /\ UNCHANGED loaderVars
    /\ UNCHANGED inflight

\* the handler settles with outcome and the reply goes out
Settle(procedureName, outcome) ==
    /\ handled' = handler(procedureName, outcome)
    /\ reply' = Respond(handler(procedureName, outcome))

\* execute with the arguments resolved: the CALL is issued, or the error is thrown
Execute(procedure, procedureParams) ==
    IF procedureParams.ok
    THEN /\ dbCall' = [procedure |-> procedure.name, params |-> procedureParams.value]
         /\ handled' = Nothing
         /\ reply' = Nothing
    ELSE /\ dbCall' = Nothing
         /\ Settle(procedure.name, procedureParams)

\* a request reaches the handler of route i: execute resolves the arguments and issues
\* the CALL, or throws before it and the handler's catch and the error handler run
Receive(i, fields) ==
    /\ server = "listening"
    /\ request = Nothing \/ reply # Nothing
    /\ i \in DOMAIN routes
    /\ request' = [procedure |-> routes[i].procedure, fields |-> fields]
    /\ Execute(ProcedureNamed(catalog, routes[i].procedure),
               ProcedureParams(ProcedureNamed(catalog, routes[i].procedure), fields))
    /\ dbOutcome' = Nothing
    /\ UNCHANGED <<procName, parsed, catalog, routes, server, startupError>>
    /\ UNCHANGED loaderVars
    /\ UNCHANGED inflight

\* the query settles with outcome: execute's tail, executef, the handler and, when it
\* throws, the error handler run to the reply
DbReturn(outcome) ==
    /\ request # Nothing
    /\ dbCall # Nothing
    /\ reply = Nothing
    /\ dbOutcome' = outcome
    /\ Settle(request.procedure, executef(outcome))
    /\ UNCHANGED <<procName, parsed, catalog, routes, server, startupError, request,
                   dbCall>>
    /\ UNCHANGED loaderVars
    /\ UNCHANGED inflight

vars == <<procName, parsed, catalog, routes, server, startupError, request, dbCall,
          dbOutcome, handled, reply, validationFiles, filesTaken, customValidations,
          selfTested, loadResult, inflight>>

\* no request is in flight and none was answered
Idle ==
    /\ request = Nothing
    /\ dbCall = Nothing
    /\ dbOutcome = Nothing
    /\ handled = Nothing
    /\ reply = Nothing
    /\ inflight = <<>>

\* loadCustomValidations returned the registry the plugin was given
Loaded ==
    /\ validationFiles = <<>>
    /\ filesTaken = 0
    /\ customValidations = SampleOptions.validations
    /\ selfTested = <<>>
    /\ loadResult = Return(SampleOptions.validations)

(***************************************************************************)
(* Spec: a catalog is compiled, the server listens and answers requests     *)
(***************************************************************************)
Init ==
    /\ procName = <<>>
    /\ parsed = <<>>
    /\ catalog \in Catalogs(MaxCatalog)
    /\ routes = <<>>
    /\ server = "registering"
    /\ startupError = Nothing
    /\ Idle
    /\ Loaded

Next ==
    \/ RegisterRoute
    \/ Listen
    \/ \E i \in 1..MaxCatalog, fields \in SampleRequests : Receive(i, fields)
    \/ \E outcome \in SampleOutcomes : DbReturn(outcome)

Spec == Init /\ [][Next]_vars

(***************************************************************************)
(* SpecDemux: one route, every answer of the database within the bounds     *)
(***************************************************************************)
InitDemux ==
    /\ procName = <<>>
    /\ parsed = <<>>
    /\ catalog = <<HelloWorld>>
    /\ routes = CompileProcedure(HelloWorld, <<>>, SampleOptions).value
    /\ server = "listening"
    /\ startupError = Nothing
    /\ Idle
    /\ Loaded

NextDemux ==
    \/ Receive(1, GetRequest)
    \/ \E results \in DemuxResults : DbReturn(Return(results))

SpecDemux == InitDemux /\ [][NextDemux]_vars

(***************************************************************************)
(* SpecName: parseProcedureName applied to bounded procedure names          *)
(***************************************************************************)
NameChars == {"g", "_", ".", "1"}

NameInputs ==
    {DefaultPrefix \o b : b \in SeqsUpTo(NameChars, MaxNameLen)}
        \cup {HelloWorldName, UpdateProfileName}

InitName ==
    /\ procName \in NameInputs
    /\ parsed = <<>>
    /\ catalog = <<>>
    /\ routes = <<>>
    /\ server = "registering"
    /\ startupError = Nothing
    /\ Idle
    /\ Loaded

ParseName ==
    /\ parsed = <<>>
    /\ parsed' = parseProcedureName(procName, DefaultPrefix)
    /\ UNCHANGED <<procName, catalog, routes, server, startupError, request, dbCall,
                   dbOutcome, handled, reply>>
    /\ UNCHANGED loaderVars
    /\ UNCHANGED inflight

NextName == ParseName

SpecName == InitName /\ [][NextName]_vars

(***************************************************************************)
(* Claims about parseProcedureName (checked under SpecName)                 *)
(***************************************************************************)
\* the part of the name after the prefix
NameBody == SubSeq(procName, Len(DefaultPrefix) + 1, Len(procName))

\* position of the first underscore of the body, Len + 1 when it has none
FirstUnderscore ==
    IF "_" \notin Range(NameBody) THEN Len(NameBody) + 1
    ELSE Least({i \in DOMAIN NameBody : NameBody[i] = "_"})

NameRest == SubSeq(NameBody, FirstUnderscore + 1, Len(NameBody))

RECURSIVE UnderscoreRun(_)
UnderscoreRun(s) == IF s # <<>> /\ Head(s) = "_" THEN 1 + UnderscoreRun(Tail(s)) ELSE 0

\* a maximal run of k underscores reads as k \div 2 separators, then a hyphen when k is odd
RECURSIVE ByRuns(_)
ByRuns(s) ==
    IF s = <<>> THEN <<>>
    ELSE LET k == UnderscoreRun(s)
         IN  IF k = 0 THEN <<Head(s)>> \o ByRuns(Tail(s))
             ELSE [i \in 1..(k \div 2) |-> "/"]
                      \o (IF k % 2 = 1 THEN <<"-">> ELSE <<>>)
                      \o ByRuns(SubSeq(s, k + 1, Len(s)))

\* C8: with prefix api_, the method is the first _-separated segment after the
\* prefix in upper case, the path begins with "/" and holds no underscore, and (for
\* a name without dotted segments) it is the rest of the name with every doubled
\* underscore turned into "/" and every remaining underscore into "-";
\* api_get_hello__world maps to ("GET", "/hello/world").
C8_MethodAndPath ==
    parsed # <<>> =>
        /\ Len(parsed[1]) = FirstUnderscore - 1
        /\ \A i \in 1..(FirstUnderscore - 1) : parsed[1][i] = ToUpperChar(NameBody[i])
        /\ Head(parsed[2]) = "/"
        /\ \A i \in DOMAIN parsed[2] : parsed[2][i] # "_"
        /\ ("." \notin Range(NameBody) => Tail(parsed[2]) = ByRuns(NameRest))
        /\ (procName = HelloWorldName =>
                parsed = << <<"G", "E", "T">>,
                            <<"/", "h", "e", "l", "l", "o", "/", "w", "o", "r", "l", "d">> >>)

\* C8 witness: api_get_hello__world has been parsed to GET /hello/world
C8_Witness ==
    /\ procName = HelloWorldName
    /\ parsed # <<>>
    /\ parsed[1] = <<"G", "E", "T">>
    /\ Includes(parsed[2], <<"o", "/", "w">>)

\* C9: a .name. dotted segment is rendered as a :name path parameter that is a path
\* segment of its own: api_post_user.id.__update_profile maps to
\* ("POST", "/user/:id/update-profile").
C9_DottedSegmentOwnSegment ==
    (parsed # <<>> /\ procName = UpdateProfileName) =>
        parsed = << <<"P", "O", "S", "T">>,
                    <<"/", "u", "s", "e", "r", "/", ":", "i", "d", "/", "u", "p", "d", "a",
                      "t", "e", "-", "p", "r", "o", "f", "i", "l", "e">> >>

(***************************************************************************)
(* Claims about the answer to a request                                     *)
(***************************************************************************)
\* the query returned an answer and the reply to the request went out
Answered == dbOutcome # Nothing /\ reply # Nothing /\ dbOutcome.ok

\* the result sets of the answer, the trailing call status discarded
AnswerSets ==
    IF dbOutcome.value.t = "array"
    THEN SubSeq(dbOutcome.value.items, 1, Len(dbOutcome.value.items) - 1)
    ELSE <<>>

\* the first row of the first result set
LeadingRow ==
    IF AnswerSets # <<>> /\ AnswerSets[1].items # <<>> THEN AnswerSets[1].items[1]
    ELSE Undefined

\* the answer leads with a row whose #RESULT# field is truthy
HasEnvelope == Answered /\ Truthy(Prop(LeadingRow, "#RESULT#"))

\* the result sets behind the envelope
RemainingSets == Tail(AnswerSets)

EnvelopeError == Prop(LeadingRow, "error")
EnvelopeSchema == Prop(LeadingRow, "schema")
EnvelopeGivesStatus == Prop(LeadingRow, "status") # Undefined

\* the descriptors of the envelope's schema
Descriptors == IF EnvelopeSchema = Undefined THEN <<>> ELSE Split(EnvelopeSchema.s, ",")

\* the explicit status if given, otherwise 400 if error is truthy, otherwise 200
StatusByEnvelope ==
    IF EnvelopeGivesStatus THEN Prop(LeadingRow, "status").n
    ELSE IF Truthy(EnvelopeError) THEN 400
    ELSE 200

\* remaining result set i shaped by descriptor i: its first row for `object`, the
\* whole set otherwise
Shaped(i) ==
    IF Descriptors[i] = DescriptorObject
    THEN IF RemainingSets[i].items = <<>> THEN Undefined ELSE RemainingSets[i].items[1]
    ELSE RemainingSets[i]

\* C1: when the answer holds result sets and its leading row has no truthy #RESULT#
\* field, the handler does not raise and replies with status 200 and the result sets
\* unchanged as the payload.
C1_SentinelLessVerbatim ==
    (Answered /\ AnswerSets # <<>> /\ ~HasEnvelope) =>
        /\ handled.ok
        /\ reply = Reply(200, Arr(AnswerSets))

\* C2: when the envelope has a truthy error, no schema and no result set behind it,
\* the reply carries the envelope's status and the payload
\* {error: true, success: false, message: <envelope message>}.
C2_ErrorEnvelopeReply ==
    (/\ HasEnvelope
     /\ Truthy(EnvelopeError)
     /\ ~Truthy(Prop(LeadingRow, "success"))
     /\ EnvelopeSchema = Undefined
     /\ RemainingSets = <<>>) =>
        reply = Reply(StatusByEnvelope,
                      Obj([error   |-> Bool(TRUE),
                           success |-> Bool(FALSE),
                           message |-> Prop(LeadingRow, "message")]))

\* C3: whenever an envelope is present, the reply status is the envelope's explicit
\* status if given, otherwise 400 if error is truthy, otherwise 200.
C3_StatusFromEnvelope ==
    HasEnvelope => reply.status = StatusByEnvelope

\* C4: when the envelope declares no schema and its error is falsy, the payload is
\* the full sequence of the remaining result sets, in order and unmodified.
C4_NoSchemaAllSets ==
    (HasEnvelope /\ EnvelopeSchema = Undefined /\ ~Truthy(EnvelopeError)) =>
        reply.payload = Arr(RemainingSets)

\* the case of C5: falsy error, n >= 2 descriptors and n result sets behind the envelope
SchemaSequenceCase ==
    /\ HasEnvelope
    /\ ~Truthy(EnvelopeError)
    /\ Len(Descriptors) >= 2
    /\ Len(RemainingSets) = Len(Descriptors)

\* C5 (as amended): with a falsy error and a schema of n >= 2 descriptors followed by
\* n result sets, the handler does not raise, the status is the envelope's explicit
\* status if it gives one and 200 otherwise, and the payload is the sequence of n
\* values whose element i is the first row of result set i when descriptor i is
\* `object` and the whole result set i otherwise.
C5_SchemaSequence ==
    SchemaSequenceCase =>
        /\ handled.ok
        /\ reply.status = StatusByEnvelope
        /\ reply.payload = Arr([i \in DOMAIN Descriptors |-> Shaped(i)])

\* C5 witness: schema "object,array" ahead of a set of one row and a set of two
\* rows was answered with 200 and [row, [row, row]]
C5_Witness ==
    /\ SchemaSequenceCase
    /\ Descriptors = <<DescriptorObject, DescriptorArray>>
    /\ reply = Reply(200, Arr(<<DataRow(1, 1), Arr(<<DataRow(2, 1), DataRow(2, 2)>>)>>))

\* C5 as stated: in that case the status is 200 and the payload is that sequence.
C5_SchemaSequenceStatus200 ==
    SchemaSequenceCase =>
        /\ reply.status = 200
        /\ reply.payload = Arr([i \in DOMAIN Descriptors |-> Shaped(i)])

\* C6: when the schema has exactly one descriptor and one result set follows the
\* envelope, the payload is the single transformed value itself.
C6_SingleDescriptorBare ==
    (HasEnvelope /\ Len(Descriptors) = 1 /\ Len(RemainingSets) = 1) =>
        reply.payload = Shaped(1)

\* the start of the message execute throws for a parameter without binding
ParameterMetadataNotFound ==
    <<"P", "a", "r", "a", "m", "e", "t", "e", "r", " ", "m", "e", "t", "a", "d", "a",
    "t", "a", " ", "n", "o", "t", " ", "f", "o", "u", "n", "d">>

\* the declared parameters of procedure that no @param tag of its metadata binds
Unbound(procedure) ==
    {i \in DOMAIN procedure.parameters :
        /\ getParamMetadata(procedure.metadata).ok
        /\ procedure.parameters[i] \notin DOMAIN getParamMetadata(procedure.metadata).value}

\* C7: a procedure with a declared parameter that no @param tag binds never gets a
\* route (compiling it raises), and no request is answered from the error
\* 'Parameter metadata not found' of Procedures.execute.
C7_MissingBindingFailsAtCompile ==
    /\ \A i \in DOMAIN routes : Unbound(ProcedureNamed(catalog, routes[i].procedure)) = {}
    /\ (handled # Nothing /\ ~handled.ok) =>
           ~Includes(handled.error.message, ParameterMetadataNotFound)

\* C10: a signalled error of the database call (sqlState 45000, message
\* 410|general|general_error_key|This is a general message!) leaves the handler as
\* it was raised and is answered with status 410 and the body
\* {error: true, code: 'GENERAL_ERROR_KEY', type: 'GENERAL', message: 'This is a
\* general message!'}.
C10_SignalledErrorPassesThrough ==
    (dbOutcome = Throw(SignalGeneral) /\ reply # Nothing) =>
        /\ handled = Throw(SignalGeneral)
        /\ reply = Reply(410, Obj([error   |-> Bool(TRUE),
                                   code    |-> Str(<<"G", "E", "N", "E", "R", "A", "L", "_", "E",
                                                     "R", "R", "O", "R", "_", "K", "E", "Y">>),
                                   type    |-> Str(TypeGeneral),
                                   message |-> Str(
                                        <<"T", "h", "i", "s", " ", "i", "s", " ", "a",
                                        " ", "g", "e", "n", "e", "r", "a", "l", " ",
                                        "m", "e", "s", "s", "a", "g", "e", "!">>)]))

(***************************************************************************)
(* SpecCompile: catalogs whose comments draw their tags from a pool, some   *)
(* of which registerProcedureRoutes rejects                                 *)
(***************************************************************************)
ParamA == <<"p", "_", "a">>
ParamB == <<"p", "_", "b">>

\* the tags a comment is drawn from
TagPool ==
    {Tag("param", FromQuerystring, <<"p", "_", "a", "<", "t", "e", "s", "t", "a", ">">>,
          <<"z", ".", "s", "t", "r", "i", "n", "g", "(", ")">>),
     Tag("param", FromBody, <<"p", "_", "b", "<", "p", "r", "o", "f", "i", "l", "e", ">">>,
           <<"z", ".", "a", "n", "y", "(", ")">>),
     Tag("param", FromUser, <<"p", "_", "b", "<", "u", "u", "i", "d", ">">>, <<>>),
     Tag("param", FromRequest, <<"p", "_", "a", "<", "t", "r", "a", "c", "e", ">">>, <<>>),
     Tag("param", <<"c", "o", "o", "k", "i", "e">>, <<"p", "_", "a", "<", "t", "e", "s",
           "t", "a", ">">>, <<"z", ".", "s", "t", "r", "i", "n", "g", "(", ")">>),
     Tag("param", FromQuerystring, <<"p", "_", "a", "<", "t", "e", "s", "t", "a", ">">>,
           <<"c", ".", "M", "i", "s", "s", "i", "n", "g", "(", ")">>),
     Tag("param", FromQuerystring, <<"p", "_", "a", "<", "t", "e", "s", "t", "a", ">">>,
           <<"c", ".", "t", "o", "S", "t", "r", "i", "n", "g", "(", ")">>),
     Tag("guard", <<>>, <<"a", "u", "t", "h">>, <<>>),
     Tag("guard", <<>>, <<"r", "o", "l", "e">>, <<"A", "D", "M", "I", "N", ",", " ", "U",
           "S", "E", "R">>),
     Tag("guard", <<>>, <<"o", "w", "n", "e", "r">>, <<>>),
     Tag("guard", <<>>, <<"t", "o", "S", "t", "r", "i", "n", "g">>, <<>>),
     Tag("hooks", <<>>, <<"p", "r", "e", "V", "a", "l", "i", "d", "a", "t", "i", "o",
           "n">>, <<"t", "e", "s", "t", "H", "o", "o", "k">>),
     Tag("hooks", <<>>, <<"p", "r", "e", "H", "a", "n", "d", "l", "e", "r">>, <<"t", "e",
           "s", "t", "H", "o", "o", "k", ",", " ", "o", "t", "h", "e", "r", "H", "o", "o",
           "k">>),
     Tag("hooks", <<>>, <<"p", "r", "e", "H", "a", "n", "d", "l", "e", "r">>, <<"o", "t",
           "h", "e", "r", "H", "o", "o", "k", ",", "t", "e", "s", "t", "H", "o", "o",
           "k">>),
     Tag("hooks", <<>>, <<"b", "e", "f", "o", "r", "e", "A", "l", "l">>, <<"t", "e", "s",
           "t", "H", "o", "o", "k">>),
     Tag("hooks", <<>>, <<"o", "n", "S", "e", "n", "d">>, <<"t", "e", "s", "t", "H", "o",
           "o", "k", ",", " ", "l", "o", "s", "t", "H", "o", "o", "k">>),
     Tag("hooks", <<>>, <<"o", "n", "S", "e", "n", "d">>, <<"t", "o", "S", "t", "r", "i",
           "n", "g">>),
     Tag("hooks", <<>>, <<"o", "n", "E", "r", "r", "o", "r">>, <<>>)}

FirstName == <<"a", "p", "i", "_", "g", "e", "t", "_", "f", "i", "r", "s", "t">>
SecondName == <<"a", "p", "i", "_", "p", "o", "s", "t", "_", "s", "e", "c", "o", "n", "d">>

\* a procedure without parameters and without tags
Plain(name) == Procedure(name, <<>>, <<>>)

\* a procedure declaring p_a and p_b whose comment holds metadata
Annotated(name, metadata) == Procedure(name, metadata, <<ParamA, ParamB>>)

\* two tags that bind p_a, from different sections under different aliases
RebindingTags ==
    {Tag("param", FromQuerystring, <<"p", "_", "a", "<", "t", "e", "s", "t", "a", ">">>, <<"z", ".", "s", "t", "r", "i", "n", "g", "(", ")">>),
     Tag("param", FromBody, <<"p", "_", "a", "<", "o", "t", "h", "e", "r", ">">>, <<"z", ".", "a", "n", "y", "(", ")">>)}

\* one annotated procedure, alone, before or after a plain one; two procedures that
\* map to the same method and url; a procedure whose first segment is no HTTP method;
\* a procedure of the schema whose name does not begin with the prefix; a comment
\* whose two tags bind the same parameter
CompileCatalogs ==
    {<<Annotated(FirstName, m)>> : m \in SeqsUpTo(TagPool, MaxTags)}
        \cup {<<Plain(FirstName), Annotated(SecondName, m)>> : m \in SeqsUpTo(TagPool,
              MaxTags)}
        \cup {<<Annotated(FirstName, m), Plain(SecondName)>> : m \in SeqsUpTo(TagPool,
              MaxTags)}
        \cup {<<Plain(FirstName), Plain(<<"p", "u", "t", "_", "o", "t", "h", "e", "r">>)>>}
        \cup {<<Annotated(FirstName, <<a, b>>)>> : a \in RebindingTags, b \in RebindingTags}
        \cup {<<Plain(FirstName), Plain(<<"g", "e", "t", "_", "f", "i", "r", "s", "t">>)>>,
              <<Plain(<<"a", "p", "i", "_", "f", "e", "t", "c", "h", "_", "f", "i", "r",
              "s", "t">>)>>}

InitCompile ==
    /\ procName = <<>>
    /\ parsed = <<>>
    /\ catalog \in CompileCatalogs
    /\ routes = <<>>
    /\ server = "registering"
    /\ startupError = Nothing
    /\ Idle
    /\ Loaded

NextCompile ==
    \/ RegisterRoute
    \/ Listen
    \/ \E i \in 1..MaxCatalog, fields \in SampleRequests : Receive(i, fields)
    \/ DbReturn(Return(DbResults(<<>>)))

SpecCompile == InitCompile /\ [][NextCompile]_vars

(***************************************************************************)
(* Claims about startup and compilation                                     *)
(***************************************************************************)
\* C11: the server listens only when every procedure of the catalog has its route, in
\* catalog order; a request is taken only by a listening server; and once compiling a
\* procedure raised, the process has exited without having taken any request, also
\* none for the routes registered before the failing procedure.
C11_ListenAfterAllRoutes ==
    /\ server = "listening" =>
           /\ Len(routes) = Len(catalog)
           /\ \A i \in DOMAIN catalog : routes[i].procedure = catalog[i].name
    /\ request # Nothing => server = "listening"
    /\ startupError # Nothing =>
           /\ server = "exited"
           /\ request = Nothing
           /\ reply = Nothing
    /\ server = "exited" => startupError # Nothing

\* C11 witness: the first procedure got its route, the second failed to compile and
\* the process exited
C11_Witness ==
    /\ server = "exited"
    /\ Len(catalog) = 2
    /\ Len(routes) = 1
    /\ startupError # Nothing

(***************************************************************************)
(* Claims about the arguments of the call                                   *)
(***************************************************************************)
\* the procedure the request in flight is for
RequestProcedure == ProcedureNamed(catalog, request.procedure)

\* the positions of the @param tags of metadata that bind param
BindingTags(metadata, param) ==
    {i \in DOMAIN metadata : metadata[i].tag = "param" /\ ParamName(metadata[i]) = param}

\* the binding of param: the last @param tag of that name
BindingTag(metadata, param) ==
    metadata[CHOOSE i \in BindingTags(metadata, param) :
                 \A j \in BindingTags(metadata, param) : j <= i]

\* every declared parameter of procedure has a binding with a known source
AllBound(procedure) ==
    \A i \in DOMAIN procedure.parameters :
        /\ BindingTags(procedure.metadata, procedure.parameters[i]) # {}
        /\ BindingTag(procedure.metadata, procedure.parameters[i]).type
               \in allowedGetFromValues

\* what the source of the binding of param yields for the request in flight
SourceValue(procedure, param) ==
    Field(SourceSection(BindingTag(procedure.metadata, param).type, request.fields),
          ParamAlias(BindingTag(procedure.metadata, param)))

\* null for undefined and null, the JSON text for an array or object, else the value
AsArgument(v) ==
    IF v \in {Undefined, Null} THEN Null
    ELSE IF v.t \in {"array", "object"} THEN Str(Stringify(v))
    ELSE v

\* C12: the call carries exactly one argument per declared parameter, in the order of
\* the declaration whatever the order of the @param tags, and argument i is the
\* value the request holds in the section of the binding of parameter i under the
\* alias of that binding (as the call argument it is passed as).
C12_ArgumentsInDeclarationOrder ==
    dbCall # Nothing =>
        /\ Len(dbCall.params) = Len(RequestProcedure.parameters)
        /\ \A i \in DOMAIN RequestProcedure.parameters :
               dbCall.params[i] =
                   AsArgument(SourceValue(RequestProcedure, RequestProcedure.parameters[i]))

\* C12 witness: the comment binds p_b before p_a, and the call was issued with the
\* query field testa first and the user field uuid second
C12_Witness ==
    /\ dbCall # Nothing
    /\ RequestProcedure.parameters = <<ParamA, ParamB>>
    /\ ParamName(RequestProcedure.metadata[1]) = ParamB
    /\ ParamName(RequestProcedure.metadata[2]) = ParamA
    /\ dbCall.params = <<Str(<<"x">>), Str(<<"u", "1">>)>>

\* C13: for every request, also one without a body or without the bound field, to a
\* procedure whose parameters are all bound, execute does not raise while resolving
\* the values and passes, for each parameter, null when the source yields undefined
\* or null, the JSON text when it yields an array or object, and the value otherwise.
C13_AbsentValuesBecomeNull ==
    (request # Nothing /\ AllBound(RequestProcedure)) =>
        /\ dbCall # Nothing
        /\ \A i \in DOMAIN RequestProcedure.parameters :
               dbCall.params[i] =
                   AsArgument(SourceValue(RequestProcedure, RequestProcedure.parameters[i]))

(***************************************************************************)
(* Claims about the chains of a compiled route                              *)
(***************************************************************************)
PreValidation == <<"p", "r", "e", "V", "a", "l", "i", "d", "a", "t", "i", "o", "n">>

\* the names of the @guard tags of procedure, in the order of the comment
GuardNames(procedure) ==
    [i \in DOMAIN FilterTags(procedure.metadata, "guard") |->
        FilterTags(procedure.metadata, "guard")[i].name]

\* the positions of the @hooks tags of procedure that declare phase
PhaseTags(procedure, phase) ==
    {i \in DOMAIN procedure.metadata :
        procedure.metadata[i].tag = "hooks" /\ procedure.metadata[i].name = phase}

\* the function names listed for phase by the comment of procedure, in listed order
HookNames(procedure, phase) ==
    IF PhaseTags(procedure, phase) = {} THEN <<>>
    ELSE SplitTrim(procedure.metadata[CHOOSE i \in PhaseTags(procedure,
          phase) : TRUE].description)

\* the names of the functions of a chain, in the order they run
ChainNames(chain) == [i \in DOMAIN chain |-> chain[i].fn]

\* C14: in every compiled route the preValidation chain is setAuthContext, then the
\* guards in the order of their tags in the comment, then the functions of a @hooks
\* preValidation tag; every other phase holds the functions of its @hooks tag in the
\* order listed (so every guard comes after setAuthContext).
C14_ChainOrder ==
    \A r \in DOMAIN routes :
        /\ ChainNames(routes[r].chains[PreValidation]) =
               <<SetAuthContext.fn>>
                   \o GuardNames(ProcedureNamed(catalog, routes[r].procedure))
                   \o HookNames(ProcedureNamed(catalog, routes[r].procedure), PreValidation)
        /\ \A phase \in DOMAIN routes[r].chains \ {PreValidation} :
               ChainNames(routes[r].chains[phase]) =
                   HookNames(ProcedureNamed(catalog, routes[r].procedure), phase)

\* C14 witness: a comment with its @hooks preValidation tag ahead of its @guard tag
\* was compiled to setAuthContext, the guard, the hook function
C14_Witness ==
    \E r \in DOMAIN routes :
        /\ ProcedureNamed(catalog, routes[r].procedure).metadata # <<>>
        /\ ProcedureNamed(catalog, routes[r].procedure).metadata[1].tag = "hooks"
        /\ ChainNames(routes[r].chains[PreValidation]) =
               <<SetAuthContext.fn, <<"a", "u", "t", "h">>, <<"t", "e", "s", "t", "H", "o",
                     "o", "k">>>>

(***************************************************************************)
(* Claims about the errors of compilation                                   *)
(***************************************************************************)
\* procedure k of the catalog is the one whose compilation raised
FailedAt(k) == server = "exited" /\ k = Len(routes) + 1

\* no route is registered for procedure
NoRouteFor(procedure) == \A r \in DOMAIN routes : routes[r].procedure # procedure.name

\* the names of the @guard tags of procedure that are no key of the guard map
UnknownGuards(procedure) ==
    {tag.name : tag \in {t \in Range(procedure.metadata) : t.tag = "guard"}}
        \ SampleOptions.guardMap

\* the comment of procedure holds @guard tags only
OnlyGuards(procedure) == \A i \in DOMAIN procedure.metadata : procedure.metadata[i].tag = "guard"

\* C15: for a procedure with a @guard tag whose name is no key of the guard map (and
\* no tag of another kind), no route is registered, and its compilation raises an
\* error whose message names the procedure and a missing guard.
C15_UnknownGuardIsFatal ==
    \A k \in DOMAIN catalog :
        (UnknownGuards(catalog[k]) # {} /\ OnlyGuards(catalog[k])) =>
            /\ NoRouteFor(catalog[k])
            /\ server # "listening"
            /\ FailedAt(k) =>
                   /\ Includes(startupError.message, catalog[k].name)
                   /\ \E g \in UnknownGuards(catalog[k]) : Includes(startupError.message, g)

\* the comment of procedure holds @hooks tags only
OnlyHooks(procedure) == \A i \in DOMAIN procedure.metadata : procedure.metadata[i].tag = "hooks"

\* a @hooks tag of procedure names a phase outside the nine lifecycle phases
UnknownPhase(procedure) ==
    \E i \in DOMAIN procedure.metadata : procedure.metadata[i].name \notin Range(allowedHookTypes)

\* two @hooks tags of procedure declare the same phase
DuplicatePhase(procedure) ==
    \E i, j \in DOMAIN procedure.metadata :
        i # j /\ procedure.metadata[i].name = procedure.metadata[j].name

\* a @hooks tag of procedure lists a function name the hook registry has no entry for
UnknownFunction(procedure) ==
    \E i \in DOMAIN procedure.metadata :
        \E name \in Range(SplitTrim(procedure.metadata[i].description)) :
            name \notin SampleOptions.hooks

\* C16: for a procedure (with @hooks tags only) one of whose tags names a phase outside
\* the nine lifecycle phases, or two of whose tags declare the same phase, or one of
\* whose tags lists a function name absent from the hook registry, compilation fails:
\* no route is registered for it and the server never listens.
C16_BadHooksTagIsFatal ==
    \A k \in DOMAIN catalog :
        ( /\ catalog[k].metadata # <<>>
          /\ OnlyHooks(catalog[k])
          /\ UnknownPhase(catalog[k]) \/ DuplicatePhase(catalog[k]) \/ UnknownFunction(catalog[k]) ) =>
            /\ NoRouteFor(catalog[k])
            /\ server # "listening"

\* the @param tags of procedure
ParamTags(procedure) == {t \in Range(procedure.metadata) : t.tag = "param"}

\* the aliases that the @param tags of procedure bind to section
SectionKeys(procedure, section) ==
    {ParamAlias(t) : t \in {u \in ParamTags(procedure) : u.type = section}}

\* C17: a procedure with a @param tag whose type is none of querystring, params, body,
\* headers, user, request is not compiled (no route, the server never listens, and the
\* error raised for it names the type); a comment of @param tags of type user or
\* request alone does not fail; and the schema of every compiled route has, in each
\* of its sections, exactly the aliases bound to that section, so that tags of type
\* user or request add no key to any section.
C17_UnknownParamTypeIsFatal ==
    /\ \A k \in DOMAIN catalog :
           /\ (\E t \in ParamTags(catalog[k]) :
                   t.type \notin {FromQuerystring, FromParams, FromBody, FromHeaders,
                                  FromUser, FromRequest}) =>
                  /\ NoRouteFor(catalog[k])
                  /\ server # "listening"
           /\ ( /\ catalog[k].metadata # <<>>
                /\ \A t \in Range(catalog[k].metadata) :
                       t.tag = "param" /\ t.type \in {FromUser, FromRequest} ) =>
                  ~FailedAt(k)
    /\ \A r \in DOMAIN routes :
           /\ DOMAIN routes[r].schema =
                  {section \in {FromQuerystring, FromParams, FromBody, FromHeaders} :
                      SectionKeys(ProcedureNamed(catalog, routes[r].procedure), section) # {}}
           /\ \A section \in DOMAIN routes[r].schema :
                  DOMAIN routes[r].schema[section] =
                      SectionKeys(ProcedureNamed(catalog, routes[r].procedure), section)

\* C17 witness: a comment binding p_b to the user and p_a to a cookie stopped the
\* startup with the error of the cookie tag, the user tag having been passed over
C17_Witness ==
    /\ FailedAt(1)
    /\ Len(catalog[1].metadata) = 2
    /\ catalog[1].metadata[1].tag = "param" /\ catalog[1].metadata[1].type = FromUser
    /\ catalog[1].metadata[2].tag = "param" /\ catalog[1].metadata[2].type = <<"c", "o", "o", "k", "i", "e">>
    /\ Includes(startupError.message, <<"U", "n", "k", "n", "o", "w", "n", " ", "p", "a", "r", "a", "m", "e", "t", "e", "r", " ", "t", "y", "p", "e", ":", " ", "c", "o", "o", "k", "i", "e">>)
    /\ routes = <<>>

\* the @param tags of procedure whose schema expression calls a custom validator that
\* the registry does not hold
MissingValidators(procedure) ==
    {t \in ParamTags(procedure) :
        /\ CallOf(t.description, "c") # <<>>
        /\ CallOf(t.description, "c") \notin SampleOptions.validations}

\* the comment of procedure holds only @param tags of the six sources
OnlyParams(procedure) ==
    \A t \in Range(procedure.metadata) : t.tag = "param" /\ t.type \in allowedGetFromValues

\* C18: for a procedure (with well-sourced @param tags only) one of whose schema
\* expressions calls a custom validator absent from the registry, compilation fails
\* at startup: no route is registered for it, the server never listens and so no
\* request ever reaches it, and the error names the validator, its parameter and the
\* procedure.
C18_MissingValidatorFailsAtStartup ==
    \A k \in DOMAIN catalog :
        (MissingValidators(catalog[k]) # {} /\ OnlyParams(catalog[k])) =>
            /\ NoRouteFor(catalog[k])
            /\ server # "listening"
            /\ request = Nothing
            /\ FailedAt(k) =>
                   \E t \in MissingValidators(catalog[k]) :
                       /\ Includes(startupError.message, CallOf(t.description, "c"))
                       /\ Includes(startupError.message, ParamName(t))
                       /\ Includes(startupError.message, catalog[k].name)

\* C20: whenever the compilation of a procedure raised (an invalid @hooks tag, an
\* unknown guard, a schema expression that fails, an unknown parameter source, a route
\* the framework refuses), the message of the error that stopped the startup contains
\* the name of that procedure, the first of the catalog without a route.
C20_CompileErrorNamesProcedure ==
    startupError # Nothing =>
        /\ Len(routes) < Len(catalog)
        /\ Includes(startupError.message, catalog[Len(routes) + 1].name)

\* C20 witness: the second procedure maps to the method and url of the first; the
\* framework's refusal stopped the startup under the second procedure's name
C20_Witness ==
    /\ FailedAt(2)
    /\ catalog[2].name = <<"g", "e", "t", "_", "f", "i", "r", "s", "t">>
    /\ Includes(startupError.message, <<"a", "l", "r", "e", "a", "d", "y", " ", "d", "e", "c", "l", "a", "r", "e", "d">>)
    /\ Includes(startupError.message, <<"E", "r", "r", "o", "r", " ", "i", "n", " ", "p", "r", "o", "c", "e", "d", "u", "r", "e", " ", "g", "e", "t", "_", "f", "i", "r", "s", "t", ":", " ">>)

(***************************************************************************)
(* loadCustomValidations                                                    *)
(***************************************************************************)
\* an export of a module: "schema" is a function returning a schema node, "plain" a
\* function returning something else, "value" an export that is no function
Export(name, kind) == [name |-> name, kind |-> kind]

\* a file the glob yields: its path and the exports of its module, as Object.entries
\* lists them
ValidationFile(path, exports) == [path |-> path, exports |-> exports]

\* moduleUrl.pathname.split('/').pop()?.replace('.ts', '')
ModuleNameOf(path) ==
    ReplaceFirst(Split(path, "/")[Len(Split(path, "/"))], <<".", "t", "s">>, <<>>)

\* the validations object, the factories called, and the error thrown if any
LoadState(names, tested, thrown) ==
    [validations |-> names, selfTested |-> tested, thrown |-> thrown]

\* the positions of the default export among the exports (module.default is truthy)
DefaultExports(exports) == {i \in DOMAIN exports : exports[i].name = <<"d", "e", "f", "a", "u", "l", "t">>}

\* the branch `if (module.default)`
RegisterDefault(acc, file, moduleName, kind) ==
    IF HasMember(acc.validations, moduleName)
    THEN [acc EXCEPT !.thrown = NewError(<<"D", "u", "p", "l", "i", "c", "a", "t", "e", " ", "v", "a", "l", "i", "d", "a", "t", "i", "o", "n", " ", "f", "u", "n", "c", "t", "i", "o", "n", " ", "n", "a", "m", "e", ":", " ">> \o moduleName)]
    ELSE IF kind = "value"
    THEN [acc EXCEPT !.thrown = NewError(<<"V", "a", "l", "i", "d", "a", "t", "i", "o", "n", " ", "m", "o", "d", "u", "l", "e", " ">> \o moduleName \o <<" ", "d", "o", "e", "s", " ", "n", "o", "t", " ", "e", "x", "p", "o", "r", "t", " ", "a", " ", "f", "u", "n", "c", "t", "i", "o", "n">>)]
    ELSE IF kind = "plain"
    THEN [acc EXCEPT !.selfTested = Append(@, <<file.path, <<"d", "e", "f", "a", "u", "l", "t">>>>),
                     !.thrown = NewError(<<"V", "a", "l", "i", "d", "a", "t", "i", "o", "n", " ", "f", "u", "n", "c", "t", "i", "o", "n", " ">> \o moduleName \o <<" ", "d", "o", "e", "s", " ", "n", "o", "t", " ", "r", "e", "t", "u", "r", "n", " ", "a", " ", "Z", "o", "d", " ", "s", "c", "h", "e", "m", "a">>)]
    ELSE [acc EXCEPT !.selfTested = Append(@, <<file.path, <<"d", "e", "f", "a", "u", "l", "t">>>>),
                     !.validations = @ \cup {moduleName}]

RECURSIVE RegisterEntries(_, _, _, _)
\* the callback of Object.entries(module).forEach for the export at position i
RegisterEntry(acc, file, moduleName, i) ==
    IF HasMember(acc.validations, file.exports[i].name)
    THEN [acc EXCEPT !.thrown = NewError(<<"D", "u", "p", "l", "i", "c", "a", "t", "e", " ", "v", "a", "l", "i", "d", "a", "t", "i", "o", "n", " ", "f", "u", "n", "c", "t", "i", "o", "n", " ", "n", "a", "m", "e", ":", " ">> \o file.exports[i].name \o <<"@">> \o moduleName)]
    ELSE IF file.exports[i].kind = "value"
    THEN [acc EXCEPT !.thrown = NewError(<<"V", "a", "l", "i", "d", "a", "t", "i", "o", "n", " ", "m", "o", "d", "u", "l", "e", " ">> \o file.exports[i].name \o <<"@">> \o moduleName \o <<" ", "i", "s", " ", "n", "o", "t", " ", "a", " ", "f", "u", "n", "c", "t", "i", "o", "n">>)]
    ELSE IF file.exports[i].kind = "plain"
    THEN [acc EXCEPT !.selfTested = Append(@, <<file.path, file.exports[i].name>>),
                     !.thrown = NewError(<<"V", "a", "l", "i", "d", "a", "t", "i", "o", "n", " ", "f", "u", "n", "c", "t", "i", "o", "n", " ">> \o file.exports[i].name \o <<"@">> \o moduleName \o <<" ", "d", "o", "e", "s", " ", "n", "o", "t", " ", "r", "e", "t", "u", "r", "n", " ", "a", " ", "Z", "o", "d", " ", "s", "c", "h", "e", "m", "a">>)]
    ELSE RegisterEntries([acc EXCEPT !.selfTested = Append(@, <<file.path, file.exports[i].name>>),
                                     !.validations = @ \cup {file.exports[i].name}],
                         file, moduleName, i + 1)

\* Object.entries(module).forEach(...) from position i on
RegisterEntries(acc, file, moduleName, i) ==
    IF i > Len(file.exports) THEN acc ELSE RegisterEntry(acc, file, moduleName, i)

\* the try block of one iteration, up to the return
LoadTry(acc, file, moduleName) ==
    IF moduleName = <<>>
    THEN [acc EXCEPT !.thrown = NewError(<<"C", "a", "n", "n", "o", "t", " ", "d", "e", "t", "e", "r", "m", "i", "n", "e", " ", "t", "h", "e", " ", "m", "o", "d", "u", "l", "e", " ", "n", "a", "m", "e", " ", "f", "r", "o", "m", " ", "f", "i", "l", "e", " ", "p", "a", "t", "h", ":", " ">> \o file.path)]
    ELSE IF DefaultExports(file.exports) # {}
    THEN RegisterDefault(acc, file, moduleName,
                         file.exports[Least(DefaultExports(file.exports))].kind)
    ELSE RegisterEntries(acc, file, moduleName, 1)

\* catch (error) { throw new Error(`Error loading validation module from file ...`) }
LoadCatch(file, tried) ==
    IF tried.thrown = Nothing THEN tried
    ELSE [tried EXCEPT !.thrown = NewError(<<"E", "r", "r", "o", "r", " ", "l", "o", "a", "d", "i", "n", "g", " ", "v", "a", "l", "i", "d", "a", "t", "i", "o", "n", " ", "m", "o", "d", "u", "l", "e", " ", "f", "r", "o", "m", " ", "f", "i", "l", "e", " ">> \o file.path \o <<":", " ">> \o tried.thrown.message)]

\* the iteration ends: `return validations` inside the loop, or the error is thrown
Taken(result) ==
    /\ customValidations' = result.validations
    /\ selfTested' = result.selfTested
    /\ loadResult' = IF result.thrown = Nothing THEN Return(result.validations)
                     ELSE Throw(result.thrown)

\* one iteration of `for await (const file of expandGlob(...))`
LoadModule ==
    /\ loadResult = Nothing
    /\ filesTaken < Len(validationFiles)
    /\ filesTaken' = filesTaken + 1
    /\ Taken(LoadCatch(validationFiles[filesTaken + 1],
                       LoadTry(LoadState(customValidations, selfTested, Nothing),
                               validationFiles[filesTaken + 1],
                               ModuleNameOf(validationFiles[filesTaken + 1].path))))
    /\ UNCHANGED <<procName, parsed, catalog, routes, server, startupError, request, dbCall,
                   dbOutcome, handled, reply, validationFiles, inflight>>

\* the glob is exhausted: the `return validations` after the loop
LoadEnd ==
    /\ loadResult = Nothing
    /\ filesTaken = Len(validationFiles)
    /\ loadResult' = Return(customValidations)
    /\ UNCHANGED <<procName, parsed, catalog, routes, server, startupError, request, dbCall,
                   dbOutcome, handled, reply, validationFiles, filesTaken,
                   customValidations, selfTested, inflight>>

(***************************************************************************)
(* SpecLoad: loadCustomValidations on folders of up to MaxFiles modules     *)
(***************************************************************************)
ExportKinds == {"schema", "plain", "value"}

\* the exports of a module: none, a default export, one or two named exports
ModuleExports ==
    {<<>>}
        \cup {<<Export(<<"d", "e", "f", "a", "u", "l", "t">>, k)>> : k \in ExportKinds}
        \cup {<<Export(<<"E", "m", "a", "i", "l">>, k)>> : k \in ExportKinds}
        \cup {<<Export(<<"E", "m", "a", "i", "l">>, k), Export(<<"P", "h", "o", "n", "e">>, l)>> : k, l \in ExportKinds}

ValidationPaths == {<<"/", "v", "/", "E", "m", "a", "i", "l", ".", "t", "s">>, <<"/", "v", "/", "U", "u", "i", "d", ".", "t", "s">>}

\* the folders: up to MaxFiles files of different paths, in either order
ValidationFolders ==
    {files \in SeqsUpTo({ValidationFile(p, e) : p \in ValidationPaths, e \in ModuleExports}, MaxFiles) :
        \A i, j \in DOMAIN files : i # j => files[i].path # files[j].path}

InitLoad ==
    /\ procName = <<>>
    /\ parsed = <<>>
    /\ catalog = <<>>
    /\ routes = <<>>
    /\ server = "registering"
    /\ startupError = Nothing
    /\ Idle
    /\ validationFiles \in ValidationFolders
    /\ filesTaken = 0
    /\ customValidations = {}
    /\ selfTested = <<>>
    /\ loadResult = Nothing

NextLoad == LoadModule \/ LoadEnd

SpecLoad == InitLoad /\ [][NextLoad]_vars

(***************************************************************************)
(* Claims about loadCustomValidations (checked under SpecLoad)              *)
(***************************************************************************)
\* the registrations a file asks for: its default export under the module's name, or
\* else each export under its own name
Registrations(file) ==
    IF DefaultExports(file.exports) # {}
    THEN {[factory |-> <<file.path, <<"d", "e", "f", "a", "u", "l", "t">>>>, name |-> ModuleNameOf(file.path),
           kind |-> file.exports[i].kind] : i \in DefaultExports(file.exports)}
    ELSE {[factory |-> <<file.path, file.exports[i].name>>, name |-> file.exports[i].name,
           kind |-> file.exports[i].kind] : i \in DOMAIN file.exports}

\* the registrations of all the modules of the folder
FolderRegistrations == UNION {Registrations(validationFiles[i]) : i \in DOMAIN validationFiles}

\* two registrations use one name, or a factory is no function or returns no schema
FolderFault ==
    \/ \E a, b \in FolderRegistrations : a # b /\ a.name = b.name
    \/ \E a \in FolderRegistrations : a.kind # "schema"

\* how many times factory was called
TimesTested(factory) == Cardinality({i \in DOMAIN selfTested : selfTested[i] = factory})

\* C19: once loadCustomValidations settled, it has aborted if, across all modules of
\* the folder, two registrations use the same name or some factory is not a function
\* or does not return a schema node; and when it returned, every factory of the
\* folder was called exactly once and is registered. No factory is ever called twice.
C19_EveryFactorySelfTested ==
    /\ \A a \in FolderRegistrations : TimesTested(a.factory) <= 1
    /\ loadResult # Nothing =>
           /\ FolderFault => ~loadResult.ok
           /\ loadResult.ok =>
                  /\ \A a \in FolderRegistrations : TimesTested(a.factory) = 1
                  /\ loadResult.value = {a.name : a \in FolderRegistrations}

\* C28: once loadCustomValidations returned, the registry it returned has an entry
\* for every validator of every module of the folder (the default export under the
\* module's file name, otherwise each named export), however many modules there are.
C28_RegistryHoldsEveryValidator ==
    (loadResult # Nothing /\ loadResult.ok) =>
        \A i \in DOMAIN validationFiles :
            \A a \in Registrations(validationFiles[i]) :
                a.kind = "schema" => a.name \in loadResult.value

(***************************************************************************)
(* Claims about errors raised while a request is served (checked under Spec)*)
(***************************************************************************)
\* how execute/executef settled for the request being served: the error of the
\* binding resolution when no CALL was issued, else what executef made of the answer
InvocationOutcome ==
    IF dbCall = Nothing
    THEN ProcedureParams(ProcedureNamed(catalog, request.procedure), request.fields)
    ELSE executef(dbOutcome)

\* the handler has settled for the request being served
HandlerSettled ==
    /\ request # Nothing
    /\ handled # Nothing
    /\ dbCall # Nothing => dbOutcome # Nothing

\* C21: whenever execute/executef raised for a request (resolving a binding, in the
\* database call, or demultiplexing the result), the handler raised too: it returned
\* no payload, and the message of its error contains the procedure's name and the
\* message of the original error; in particular an error of the database is in it.
C21_NoErrorSwallowed ==
    (HandlerSettled /\ ~InvocationOutcome.ok) =>
        /\ ~handled.ok
        /\ Includes(handled.error.message, request.procedure)
        /\ Includes(handled.error.message, InvocationOutcome.error.message)
        /\ (dbCall # Nothing /\ ~dbOutcome.ok) =>
               Includes(handled.error.message, dbOutcome.error.message)

\* C21 witness: the database answered, executef raised on the answer, and the handler
\* raised under the procedure's name
C21_Witness ==
    /\ HandlerSettled
    /\ dbCall # Nothing
    /\ dbOutcome.ok
    /\ ~executef(dbOutcome).ok
    /\ ~handled.ok
    /\ Includes(handled.error.message, request.procedure)

(***************************************************************************)
(* SpecError: errors of the database driver handed to errorHandler          *)
(***************************************************************************)
SignalStatuses == {<<"4", "1", "0">>, <<"4", "2", "2">>, <<"4", "x", "0">>}

SignalTypes == {<<"g", "e", "n", "e", "r", "a", "l">>, <<"f", "i", "e", "l", "d">>, <<"G", "e", "n", "e", "r", "a", "l">>, <<"o", "t", "h", "e", "r">>}

\* the parts of a message after the status and the type
SignalTails == SeqsUpTo({<<"n", "a", "m", "e", "_", "t", "a", "k", "e", "n">>, <<"u", "s", "e", "r", ".", "n", "a", "m", "e">>, <<"N", "a", "m", "e", " ", "i", "s", " ", "t", "a", "k", "e", "n", "!">>}, 3)

\* the messages drawn: status|type|parts..., and one without a bar
SignalMessages ==
    {Join(<<status, type>> \o tail, <<"|">>) :
        status \in SignalStatuses, type \in SignalTypes, tail \in SignalTails}
        \cup {<<"p", "l", "a", "i", "n", " ", "f", "a", "i", "l", "u", "r", "e">>}

\* the errors drawn: signalled (45000), of the server (42000), of the driver (HY000)
SignalledErrors ==
    {DbError(message, sqlState) :
        message \in SignalMessages, sqlState \in {<<"4", "5", "0", "0", "0">>, <<"4", "2", "0", "0", "0">>, <<"H", "Y", "0", "0", "0">>}}

InitError ==
    /\ procName = <<>>
    /\ parsed = <<>>
    /\ catalog = <<>>
    /\ routes = <<>>
    /\ server = "listening"
    /\ startupError = Nothing
    /\ request = Nothing
    /\ dbCall = Nothing
    /\ dbOutcome = Nothing
    /\ handled \in {Throw(error) : error \in SignalledErrors}
    /\ reply = Nothing
    /\ inflight = <<>>
    /\ Loaded

\* app.setErrorHandler(errorHandler): the error a route threw is answered
ErrorReply ==
    /\ handled # Nothing
    /\ ~handled.ok
    /\ reply = Nothing
    /\ reply' = Respond(handled)
    /\ UNCHANGED <<procName, parsed, catalog, routes, server, startupError, request, dbCall,
                   dbOutcome, handled>>
    /\ UNCHANGED loaderVars
    /\ UNCHANGED inflight

NextError == ErrorReply

SpecError == InitError /\ [][NextError]_vars

(***************************************************************************)
(* Claims about errorHandler (checked under SpecError)                      *)
(***************************************************************************)
\* the parts of the message of the error that was answered
SignalParts == Split(handled.error.message, "|")

\* a signalled application error laid out as statusCode|errorType|code|message and
\* possibly |fieldPath, with a numeric status, was answered
SignalAnswered(errorType) ==
    /\ handled # Nothing
    /\ ~handled.ok
    /\ reply # Nothing
    /\ StartsWith(handled.error.sqlState.s, <<"4", "5">>)
    /\ Len(SignalParts) >= 4
    /\ ~IsNaNString(SignalParts[1])
    /\ SignalParts[2] = errorType

\* C22: a signalled error statusCode|errorType|code|message[|fieldPath] is answered
\* with status statusCode; for errorType general the body's code is the third part in
\* upper case and its message the fourth part; for errorType field the body has a
\* single error entry whose code is the third part in upper case, whose message is
\* the fourth part and whose path is the fifth part split on '.'.
C22_SignalLayout ==
    /\ SignalAnswered(<<"g", "e", "n", "e", "r", "a", "l">>) =>
           /\ reply.status = DigitsValue(SignalParts[1])
           /\ Prop(reply.payload, "code") = Str(ToUpperCase(SignalParts[3]))
           /\ Prop(reply.payload, "message") = Str(SignalParts[4])
    /\ SignalAnswered(<<"f", "i", "e", "l", "d">>) =>
           /\ reply.status = DigitsValue(SignalParts[1])
           /\ Len(Prop(reply.payload, "errors").items) = 1
           /\ Prop(Prop(reply.payload, "errors").items[1], "code") =
                  Str(ToUpperCase(SignalParts[3]))
           /\ Prop(Prop(reply.payload, "errors").items[1], "message") = Str(SignalParts[4])
           /\ Len(SignalParts) >= 5 =>
                  Prop(Prop(reply.payload, "errors").items[1], "path") =
                      StrArray(Split(SignalParts[5], "."))

(***************************************************************************)
(* SpecTwice: the four compile functions run twice on one procedure         *)
(***************************************************************************)
\* the validations object after generateZodSchema ran the scripts of metadata: the
\* loop stops at the first script that throws, and at an unknown type once its
\* script ran
RECURSIVE ValidationsAfter(_, _)
ValidationsAfter(validations, metadata) ==
    IF metadata = <<>> THEN validations
    ELSE IF Head(metadata).tag # "param" THEN ValidationsAfter(validations, Tail(metadata))
    ELSE IF ~ParseSchema(Head(metadata).description, validations).ok THEN validations
    ELSE IF Head(metadata).type \notin allowedGetFromValues
    THEN ContextAfter(Head(metadata).description, validations)
    ELSE ValidationsAfter(ContextAfter(Head(metadata).description, validations),
                          Tail(metadata))

\* what the four functions return (or throw) for procedure
CompiledParts(procedure, options) ==
    [route    |-> parseProcedureName(procedure.name, options.procedureNamePrefix),
     schema   |-> generateZodSchema(procedure, procedure.metadata, options.validations),
     guards   |-> generateGuards(procedure, procedure.metadata, options.guardMap),
     bindings |-> getParamMetadata(procedure.metadata)]

\* tags whose schema expression assigns to, and calls, a member of c
AssignTags ==
    {Tag("param", FromQuerystring, <<"p", "_", "a", "<", "t", "e", "s", "t", "a", ">">>, <<"c", ".", "E", "m", "a", "i", "l", "=", "z", ".", "s", "t", "r", "i", "n", "g">>),
     Tag("param", FromBody, <<"p", "_", "b", "<", "p", "r", "o", "f", "i", "l", "e", ">">>, <<"c", ".", "E", "m", "a", "i", "l", "(", ")">>)}

InitTwice ==
    /\ procName = <<>>
    /\ parsed = <<>>
    /\ catalog \in {<<Annotated(FirstName, m)>> : m \in SeqsUpTo(TagPool \cup AssignTags, MaxTags)}
    /\ routes = <<>>
    /\ server = "registering"
    /\ startupError = Nothing
    /\ Idle
    /\ Loaded

\* one run of parseProcedureName, generateZodSchema, generateGuards and
\* getParamMetadata on the procedure, with the validations object as it is now
CompileAgain ==
    /\ Len(parsed) < 2
    /\ parsed' = Append(parsed,
                        CompiledParts(catalog[1],
                                      Options(SampleOptions.procedureNamePrefix,
                                              SampleOptions.guardMap, SampleOptions.hooks,
                                              customValidations)))
    /\ customValidations' = ValidationsAfter(customValidations, catalog[1].metadata)
    /\ UNCHANGED <<procName, catalog, routes, server, startupError, request, dbCall,
                   dbOutcome, handled, reply, validationFiles, filesTaken, selfTested,
                   loadResult, inflight>>

NextTwice == CompileAgain

SpecTwice == InitTwice /\ [][NextTwice]_vars

\* C23: the second run of the four functions on the same procedure returns what the
\* first returned (method and path, schema, guards, bindings), and no run changes the
\* validator registry (the procedure itself is only read).
C23_CompileTwiceSame ==
    /\ Len(parsed) = 2 => parsed[1] = parsed[2]
    /\ customValidations = SampleOptions.validations

(***************************************************************************)
(* SpecConcurrent: requests served side by side                             *)
(***************************************************************************)
\* a request whose handler awaits the database, or has settled without a CALL
Started(procedureName, fields, procedureParams) ==
    IF procedureParams.ok
    THEN [procedure |-> procedureName, fields |-> fields,
          dbCall |-> [procedure |-> procedureName, params |-> procedureParams.value],
          dbOutcome |-> Nothing, handled |-> Nothing, reply |-> Nothing]
    ELSE [procedure |-> procedureName, fields |-> fields, dbCall |-> Nothing,
          dbOutcome |-> Nothing, handled |-> handler(procedureName, procedureParams),
          reply |-> Respond(handler(procedureName, procedureParams))]

\* the request of a slot once its query settled with outcome
Settled(slot, outcome) ==
    [slot EXCEPT !.dbOutcome = outcome,
                 !.handled = handler(slot.procedure, executef(outcome)),
                 !.reply = Respond(handler(slot.procedure, executef(outcome)))]


\* the request data kept in one map for all requests: a request reads what the
\* request of another slot carries
ReceiveInSharingData(k, i, fields) ==
    /\ server = "listening"
    /\ IF inflight[k] = Nothing THEN TRUE ELSE inflight[k].reply # Nothing
    /\ i \in DOMAIN routes
    /\ inflight' = [inflight EXCEPT ![k] =
                        Started(routes[i].procedure, fields,
                                ProcedureParams(ProcedureNamed(catalog, routes[i].procedure),
                                    IF \E j \in DOMAIN inflight : j # k /\ inflight[j] # Nothing
                                    THEN [fields EXCEPT !.requestData =
                                              inflight[CHOOSE j \in DOMAIN inflight :
                                                  j # k /\ inflight[j] # Nothing].fields.requestData]
                                    ELSE fields))]
    /\ UNCHANGED <<procName, parsed, catalog, routes, server, startupError, request, dbCall,
                   dbOutcome, handled, reply>>
    /\ UNCHANGED loaderVars

\* a request reaches the handler of route i while others are in flight
ReceiveIn(k, i, fields) ==
    /\ server = "listening"
    /\ IF inflight[k] = Nothing THEN TRUE ELSE inflight[k].reply # Nothing
    /\ i \in DOMAIN routes
    /\ inflight' = [inflight EXCEPT ![k] =
                        Started(routes[i].procedure, fields,
                                ProcedureParams(ProcedureNamed(catalog, routes[i].procedure),
                                                fields))]
    /\ UNCHANGED <<procName, parsed, catalog, routes, server, startupError, request, dbCall,
                   dbOutcome, handled, reply>>
    /\ UNCHANGED loaderVars

\* the query of slot k settles, whatever the other slots are doing
DbReturnIn(k, outcome) ==
    /\ inflight[k] # Nothing
    /\ inflight[k].dbCall # Nothing
    /\ inflight[k].reply = Nothing
    /\ inflight' = [inflight EXCEPT ![k] = Settled(inflight[k], outcome)]
    /\ UNCHANGED <<procName, parsed, catalog, routes, server, startupError, request, dbCall,
                   dbOutcome, handled, reply>>
    /\ UNCHANGED loaderVars

\* binds p_a to the request's own data and p_b to the body
Traced ==
    Annotated(SecondName,
              <<Tag("param", FromRequest, <<"p", "_", "a", "<", "t", "r", "a", "c", "e", ">">>, <<>>),
                Tag("param", FromBody, <<"p", "_", "b", "<", "p", "r", "o", "f", "i", "l", "e", ">">>, <<"z", ".", "a", "n", "y", "(", ")">>)>>)

ConcurrentCatalog == <<HelloWorld, Traced>>

\* a request carrying trace in its request data
TracedRequest(trace) ==
    Request(Section(NoFields), Section(NoFields),
            Section([a \in {<<"p", "r", "o", "f", "i", "l", "e">>} |-> Obj([a |-> Num(1)])]),
            Section(NoFields), AbsentSection,
            Section([a \in {<<"t", "r", "a", "c", "e">>} |-> Str(trace)]))

ConcurrentRequests == {GetRequest, PostRequest, TracedRequest(<<"t", "1">>), TracedRequest(<<"t", "2">>)}

\* the route table of a catalog that compiles
RECURSIVE CompileAll(_, _)
CompileAll(procedures, registered) ==
    IF procedures = <<>> THEN registered
    ELSE CompileAll(Tail(procedures),
                    CompileProcedure(Head(procedures), registered, SampleOptions).value)

InitConcurrent ==
    /\ procName = <<>>
    /\ parsed = <<>>
    /\ catalog = ConcurrentCatalog
    /\ routes = CompileAll(ConcurrentCatalog, <<>>)
    /\ server = "listening"
    /\ startupError = Nothing
    /\ request = Nothing
    /\ dbCall = Nothing
    /\ dbOutcome = Nothing
    /\ handled = Nothing
    /\ reply = Nothing
    /\ inflight = [k \in 1..MaxInflight |-> Nothing]
    /\ Loaded

NextConcurrent ==
    \/ \E k \in 1..MaxInflight, i \in 1..MaxCatalog, fields \in ConcurrentRequests :
           ReceiveIn(k, i, fields)
    \/ \E k \in 1..MaxInflight, outcome \in SampleOutcomes : DbReturnIn(k, outcome)

SpecConcurrent == InitConcurrent /\ [][NextConcurrent]_vars

(***************************************************************************)
(* Claims about concurrent requests (checked under SpecConcurrent)          *)
(***************************************************************************)
\* what execute resolves for the request of slot k from that request's own fields
OwnParams(k) ==
    ProcedureParams(ProcedureNamed(catalog, inflight[k].procedure), inflight[k].fields)

ConventionNames ==
    {catalog[i].name : i \in {j \in DOMAIN catalog :
                                  StartsWith(catalog[j].name, SampleOptions.procedureNamePrefix)}}

\* C25: only procedures whose name begins with the configured prefix are turned into
\* routes: every route belongs to such a procedure, a listening server has a route for
\* exactly those procedures, and a failed startup was caused by such a procedure.
C25_OnlyConventionCompiled ==
    /\ \A i \in DOMAIN routes : StartsWith(routes[i].procedure, SampleOptions.procedureNamePrefix)
    /\ server = "listening" =>
           {routes[i].procedure : i \in DOMAIN routes} = ConventionNames
    /\ startupError # Nothing =>
           StartsWith(catalog[Len(routes) + 1].name, SampleOptions.procedureNamePrefix)

\* the payload the schema shapes from the result sets behind the envelope: the bare
\* value for one descriptor, the sequence of the values otherwise
ShapedBySchema ==
    IF Len(Descriptors) = 1 THEN Shaped(1)
    ELSE Arr([i \in DOMAIN Descriptors |-> Shaped(i)])

\* C26: whenever the envelope declares a schema (and a result set follows for each
\* descriptor), the handler does not raise, the status is the envelope's, and the
\* payload is the schema-shaped transformation of the remaining result sets, also
\* when the envelope's error is truthy.
C26_SchemaShapesAlsoOnError ==
    (HasEnvelope /\ EnvelopeSchema # Undefined /\ Len(RemainingSets) >= Len(Descriptors)) =>
        /\ handled.ok
        /\ reply.status = StatusByEnvelope
        /\ reply.payload = ShapedBySchema

(***************************************************************************)
(* The auth collaborator: verifySafe, setAuthContext, requireAuth           *)
(***************************************************************************)
\* the payload of a token: uuid, and exp (seconds) when the token was signed with an
\* expiry
TokenData(uuid, exp) ==
    [a \in {<<"u", "u", "i", "d">>} \cup (IF exp = Undefined THEN {} ELSE {<<"e", "x", "p">>}) |->
        IF a = <<"u", "u", "i", "d">> THEN Str(uuid) ELSE exp]

\* the tokens signed with config.jwt.secret, by their text; every other text fails
\* verification
SignedTokens ==
    [t \in {<<"t", "1">>, <<"t", "2">>, <<"t", "0">>} |->
        IF t = <<"t", "1">> THEN TokenData(<<"u", "1">>, Num(1))
        ELSE IF t = <<"t", "2">> THEN TokenData(<<"u", "2">>, Num(2))
        ELSE TokenData(<<"u", "0">>, Undefined)]

\* verifyJWT(token, config.jwt.secret, {ignoreExpiration: true})
verifyJWT(token) ==
    IF token \in DOMAIN SignedTokens THEN Return(SignedTokens[token])
    ELSE Throw(NewError(<<"i", "n", "v", "a", "l", "i", "d", " ", "t", "o", "k", "e", "n">>))

\* Date.now() >= data.exp * 1000; a comparison with NaN (no exp) is false
IsExpired(data, now) ==
    IF <<"e", "x", "p">> \in DOMAIN data THEN now >= data[<<"e", "x", "p">>].n * 1000 ELSE FALSE

\* verifySafe: {data, isExpired}, or null when verification throws
verifySafe(token, now) ==
    IF verifyJWT(token).ok
    THEN [data |-> verifyJWT(token).value, isExpired |-> IsExpired(verifyJWT(token).value, now)]
    ELSE Null

\* parts[1] || ''
SecondPart(parts) == IF Len(parts) >= 2 THEN parts[2] ELSE <<>>

\* request.headers.authorization?.split(' ')[1] || ''
AuthorizationToken(headers) ==
    IF Field(headers, <<"a", "u", "t", "h", "o", "r", "i", "z", "a", "t", "i", "o", "n">>) = Undefined THEN <<>>
    ELSE SecondPart(Split(Field(headers, <<"a", "u", "t", "h", "o", "r", "i", "z", "a", "t", "i", "o", "n">>).s, " "))

\* the four values setAuthContext sets, decoded being what verifySafe returned
AuthContext(token, decoded) ==
    [token           |-> token,
     user            |-> IF decoded = Null THEN Null ELSE decoded.data,
     isAuthenticated |-> decoded # Null,
     isAuthorised    |-> IF decoded = Null THEN FALSE ELSE ~decoded.isExpired]

\* setAuthContext(request, reply)
setAuthContext(fields, now) ==
    AuthContext(AuthorizationToken(fields.headers),
                verifySafe(AuthorizationToken(fields.headers), now))

\* new Forbidden() and new Unauthorized()
Forbidden == ErrorObject(<<"F", "o", "r", "b", "i", "d", "d", "e", "n">>, Undefined, TRUE, Num(403))
Unauthorized == ErrorObject(<<"U", "n", "a", "u", "t", "h", "o", "r", "i", "z", "e", "d">>, Undefined, TRUE, Num(401))

\* a guard that lets every authenticated request pass
requireAuthIgnoringExpiry(context) ==
    IF ~context.isAuthenticated THEN Throw(Forbidden) ELSE Return(Undefined)

\* requireAuth()(request, reply)
requireAuth(context) ==
    IF ~context.isAuthenticated THEN Throw(Forbidden)
    ELSE IF ~context.isAuthorised THEN Throw(Unauthorized)
    ELSE Return(Undefined)

\* the guards of a chain run in order behind setAuthContext: the first one that throws
\* ends the request (guardMap.auth is requireAuth)
RECURSIVE RunGuards(_, _)
RunGuards(guards, context) ==
    IF guards = <<>> THEN Return(Undefined)
    ELSE IF ~requireAuth(context).ok THEN requireAuth(context)
    ELSE RunGuards(Tail(guards), context)

\* request.requestContext.get('user') as the section the `user` source reads
UserSection(context) ==
    IF context.user = Null THEN AbsentSection ELSE Section(context.user)

(***************************************************************************)
(* SpecAuth: guarded routes and requests with every kind of token           *)
(***************************************************************************)
GuardAuth == Tag("guard", <<>>, <<"a", "u", "t", "h">>, <<>>)

\* two procedures guarded by @guard auth, the second bound to the uuid of the user
AuthCatalog ==
    <<Procedure(FirstName, <<GuardAuth>>, <<>>),
      Procedure(SecondName,
                <<GuardAuth, Tag("param", FromUser, <<"p", "_", "a", "<", "u", "u", "i", "d", ">">>, <<>>)>>, <<ParamA>>)>>

\* no authorization header; a signed token with and without expiry; an unsigned token;
\* a header without token, and one without scheme
AuthorizationHeaders ==
    {NoFields}
        \cup {[a \in {<<"a", "u", "t", "h", "o", "r", "i", "z", "a", "t", "i", "o", "n">>} |-> Str(h)] :
                 h \in {<<"B", "e", "a", "r", "e", "r", " ", "t", "1">>, <<"B", "e", "a", "r", "e", "r", " ", "t", "2">>, <<"B", "e", "a", "r", "e", "r", " ", "t", "0">>, <<"B", "e", "a", "r", "e", "r", " ", "t", "x">>,
                        <<"B", "e", "a", "r", "e", "r">>, <<"B", "e", "a", "r", "e", "r", " ", " ", "t", "1">>, <<"t", "1">>}}

AuthRequests ==
    {Request(Section(NoFields), Section(NoFields), AbsentSection, Section(h),
             AbsentSection, AbsentSection) : h \in AuthorizationHeaders}

\* the values of Date.now() around the expiry of the tokens
Clock == {999, 1000, 1999, 2000}

\* the error a hook threw goes to the error handler; the handler is not run
HookThrew(thrown) ==
    /\ handled' = thrown
    /\ reply' = Respond(thrown)
    /\ dbCall' = Nothing

\* a request arrives at route i and the first preValidation hook, setAuthContext, runs
AuthReceive(i, fields, now) ==
    /\ server = "listening"
    /\ request = Nothing \/ reply # Nothing
    /\ i \in DOMAIN routes
    /\ request' = [procedure      |-> routes[i].procedure,
                   fields         |-> [fields EXCEPT
                                          !.user = UserSection(setAuthContext(fields, now))],
                   now            |-> now,
                   guards         |-> Tail(routes[i].chains[<<"p", "r", "e", "V", "a", "l", "i", "d", "a", "t", "i", "o", "n">>]),
                   requestContext |-> setAuthContext(fields, now)]
    /\ dbCall' = Nothing
    /\ dbOutcome' = Nothing
    /\ handled' = Nothing
    /\ reply' = Nothing
    /\ UNCHANGED <<procName, parsed, catalog, routes, server, startupError>>
    /\ UNCHANGED loaderVars
    /\ UNCHANGED inflight

\* the guards run; when none throws the handler is reached and execute issues the CALL
GuardsThenHandler ==
    /\ request # Nothing
    /\ dbCall = Nothing
    /\ reply = Nothing
    /\ IF RunGuards(request.guards, request.requestContext).ok
       THEN Execute(ProcedureNamed(catalog, request.procedure),
                    ProcedureParams(ProcedureNamed(catalog, request.procedure),
                                    request.fields))
       ELSE HookThrew(RunGuards(request.guards, request.requestContext))
    /\ UNCHANGED <<procName, parsed, catalog, routes, server, startupError, request,
                   dbOutcome>>
    /\ UNCHANGED loaderVars
    /\ UNCHANGED inflight

InitAuth ==
    /\ procName = <<>>
    /\ parsed = <<>>
    /\ catalog = AuthCatalog
    /\ routes = CompileAll(AuthCatalog, <<>>)
    /\ server = "listening"
    /\ startupError = Nothing
    /\ Idle
    /\ Loaded

NextAuth ==
    \/ \E i \in 1..MaxCatalog, fields \in AuthRequests, now \in Clock :
           AuthReceive(i, fields, now)
    \/ GuardsThenHandler
    \/ \E outcome \in SampleOutcomes : DbReturn(outcome)

SpecAuth == InitAuth /\ [][NextAuth]_vars

(***************************************************************************)
(* Claims about guarded routes (checked under SpecAuth)                     *)
(***************************************************************************)
\* the text after the first space of the authorization header of the request
PresentedToken ==
    IF <<"a", "u", "t", "h", "o", "r", "i", "z", "a", "t", "i", "o", "n">> \in DOMAIN request.fields.headers.fields
    THEN SecondPart(Split(request.fields.headers.fields[<<"a", "u", "t", "h", "o", "r", "i", "z", "a", "t", "i", "o", "n">>].s, " "))
    ELSE <<>>

\* the token of the request is missing or was not signed with the secret
TokenRejected == PresentedToken \notin DOMAIN SignedTokens

\* the token of the request verifies and its expiry has passed
TokenExpired ==
    /\ PresentedToken \in DOMAIN SignedTokens
    /\ <<"e", "x", "p">> \in DOMAIN SignedTokens[PresentedToken]
    /\ request.now >= SignedTokens[PresentedToken][<<"e", "x", "p">>].n * 1000

\* C27: on a route whose chain is [setAuthContext, requireAuth()], once setAuthContext
\* ran, isAuthorised implies isAuthenticated and the user is non-null only if
\* isAuthenticated; a request whose token is missing or fails verification never
\* reaches the handler (no CALL) and is answered 403; one whose token verifies but is
\* expired never reaches the handler and is answered 401.
C27_GuardedHandlerUnreached ==
    request # Nothing =>
        /\ request.requestContext.isAuthorised => request.requestContext.isAuthenticated
        /\ request.requestContext.user # Null => request.requestContext.isAuthenticated
        /\ TokenRejected => (dbCall = Nothing /\ (reply # Nothing => reply.status = 403))
        /\ TokenExpired => (dbCall = Nothing /\ (reply # Nothing => reply.status = 401))

\* C27 witness: a request with an expired token was answered 401 by a guarded route
\* without a CALL
C27_Witness ==
    /\ request # Nothing
    /\ reply # Nothing
    /\ TokenExpired
    /\ reply.status = 401
    /\ dbCall = Nothing
    /\ request.guards # <<>>

(***************************************************************************)
(* Claims about executef's payload (checked under SpecDemux)                *)
(***************************************************************************)
\* what descriptor i makes of the remaining result sets; results[i] is undefined when
\* fewer than i sets follow the envelope
ElementOf(i) == IF i > Len(RemainingSets) THEN Undefined ELSE Shaped(i)

\* an `object` descriptor stands at an index where no result set follows
ObjectBeyondSets ==
    \E i \in DOMAIN Descriptors : i > Len(RemainingSets) /\ Descriptors[i] = DescriptorObject

\* C29: for an envelope whose schema has k descriptors ahead of n result sets, executef
\* raises when an `object` descriptor stands at an index >= n; otherwise the payload it
\* returns has exactly k elements (the bare value when k = 1), element i made from result
\* set i, so that no result set at an index >= k appears in it.
C29_PayloadFromDescriptors ==
    (HasEnvelope /\ EnvelopeSchema # Undefined) =>
        IF ObjectBeyondSets THEN ~executef(dbOutcome).ok
        ELSE /\ executef(dbOutcome).ok
             /\ At(executef(dbOutcome).value, 0) =
                    IF Len(Descriptors) = 1 THEN ElementOf(1)
                    ELSE Arr([i \in DOMAIN Descriptors |-> ElementOf(i)])

\* C29 witness: one descriptor ahead of two result sets gave the first set alone
C29_Witness ==
    /\ HasEnvelope
    /\ Descriptors = <<DescriptorArray>>
    /\ Len(RemainingSets) = 2
    /\ RemainingSets[2].items # <<>>
    /\ executef(dbOutcome) = Return(Arr(<<RemainingSets[1], LeadingRow>>))

(***************************************************************************)
(* Claims about repeated @param tags (checked under SpecCompile)            *)
(***************************************************************************)
\* the positions of the @param tags of procedure that bind name
TagsBinding(procedure, name) ==
    {i \in DOMAIN procedure.metadata :
        procedure.metadata[i].tag = "param" /\ ParamName(procedure.metadata[i]) = name}

\* the names that two or more @param tags of procedure bind
ReboundNames(procedure) ==
    {ParamName(t) : t \in {u \in ParamTags(procedure) :
                              Cardinality(TagsBinding(procedure, ParamName(u))) >= 2}}

\* the last tag of procedure that binds name
LastTagBinding(procedure, name) ==
    procedure.metadata[CHOOSE i \in TagsBinding(procedure, name) :
                           \A j \in TagsBinding(procedure, name) : j <= i]

\* every tag of procedure is a @param tag that alone would compile
OnlySoundParams(procedure) ==
    \A t \in Range(procedure.metadata) :
        /\ t.tag = "param"
        /\ t.type \in allowedGetFromValues
        /\ t.description \in {<<"z", ".", "s", "t", "r", "i", "n", "g", "(", ")">>, <<"z", ".", "a", "n", "y", "(", ")">>}

\* C30: a procedure whose comment has two @param tags for one parameter name compiles;
\* getParamMetadata keeps one binding for that name, the source and alias of the last
\* tag; and the schema of its route has the alias of every such tag in the tag's
\* section.
C30_LastParamTagWins ==
    \A k \in DOMAIN catalog :
        (ReboundNames(catalog[k]) # {} /\ OnlySoundParams(catalog[k])) =>
            /\ ~FailedAt(k)
            /\ getParamMetadata(catalog[k].metadata).ok
            /\ \A n \in ReboundNames(catalog[k]) :
                   /\ getParamMetadata(catalog[k].metadata).value[n].getFrom =
                          LastTagBinding(catalog[k], n).type
                   /\ getParamMetadata(catalog[k].metadata).value[n].alias =
                          ParamAlias(LastTagBinding(catalog[k], n))
            /\ k \in DOMAIN routes =>
                   \A t \in ParamTags(catalog[k]) :
                       t.type \in SchemaSections =>
                           /\ t.type \in DOMAIN routes[k].schema
                           /\ ParamAlias(t) \in DOMAIN routes[k].schema[t.type]

\* C30 witness: p_a bound from the querystring as testa and then from the body as
\* other was compiled; the binding is the body's, the schema has both fields
C30_Witness ==
    /\ Len(routes) = 1
    /\ Len(catalog[1].metadata) = 2
    /\ catalog[1].metadata[1].type = FromQuerystring
    /\ catalog[1].metadata[2].type = FromBody
    /\ ReboundNames(catalog[1]) = {ParamA}
    /\ getParamMetadata(catalog[1].metadata).value[ParamA].alias = <<"o", "t", "h", "e", "r">>
    /\ <<"t", "e", "s", "t", "a">> \in DOMAIN routes[1].schema[FromQuerystring]
    /\ <<"o", "t", "h", "e", "r">> \in DOMAIN routes[1].schema[FromBody]

====
